---------------------------- MODULE Spec2Model ----------------------------
(***************************************************************************)
(* A model of the seo-scanner pipeline: the URL scope predicate            *)
(* (src/src/utils.py), the breadth-first site crawler (src/src/crawler.py) *)
(* and the command-line / dashboard pipelines that drive it (src/main.py,  *)
(* src/app.py).                                                            *)
(*                                                                         *)
(* Text is modelled as a sequence of one-character strings, so that the    *)
(* parsing, joining, lower-casing and suffix / substring tests of the code *)
(* are computed the way the code computes them.                            *)
(***************************************************************************)
EXTENDS Integers, Sequences, FiniteSets, TLC

(***************************************************************************)
(* Text helpers (Python str methods used by the code).                     *)
(***************************************************************************)
LOWERCASE == <<"a","b","c","d","e","f","g","h","i","j","k","l","m",
               "n","o","p","q","r","s","t","u","v","w","x","y","z">>
UPPERCASE == <<"A","B","C","D","E","F","G","H","I","J","K","L","M",
               "N","O","P","Q","R","S","T","U","V","W","X","Y","Z">>
DIGITS == {"0","1","2","3","4","5","6","7","8","9"}

Range(s) == {s[i] : i \in DOMAIN s}

\* F applied to the value v, which is computed once however often F uses it
\* (the bound x of the set constructor holds a value, not an expression)
With(v, F(_)) == CHOOSE y \in {F(x) : x \in {v}} : TRUE

IsAlpha(c) == c \in Range(LOWERCASE) \cup Range(UPPERCASE)

\* str.lower() on one character
LowerChar(c) ==
    IF c \in Range(UPPERCASE)
    THEN LOWERCASE[CHOOSE i \in DOMAIN UPPERCASE : UPPERCASE[i] = c]
    ELSE c

\* str.lower()
Lower(s) == [i \in DOMAIN s |-> LowerChar(s[i])]

\* s[a:b] with 1-based inclusive bounds, empty when a > b
Slice(s, a, b) == IF a > b THEN <<>> ELSE SubSeq(s, a, b)

\* str.startswith / str.endswith
StartsWith(s, p) == Len(p) <= Len(s) /\ SubSeq(s, 1, Len(p)) = p
EndsWith(s, p) ==
    Len(p) <= Len(s) /\ Slice(s, Len(s) - Len(p) + 1, Len(s)) = p

\* `p in s` for strings
Contains(s, p) ==
    \E i \in 1..(Len(s) - Len(p) + 1) : SubSeq(s, i, i + Len(p) - 1) = p

\* str.find(c) + 1 for a set of characters: the first position holding one
\* of cs at or after position from, 0 when there is none
FindAny(s, cs, from) ==
    With({i \in from..Len(s) : s[i] \in cs}, LAMBDA hits :
        IF hits = {} THEN 0 ELSE CHOOSE i \in hits : \A j \in hits : i <= j)

\* str.split('/')
RECURSIVE SplitSlash(_)
SplitSlash(s) ==
    With(FindAny(s, {"/"}, 1), LAMBDA i :
        IF i = 0 THEN <<s>>
        ELSE <<Slice(s, 1, i - 1)>> \o SplitSlash(Slice(s, i + 1, Len(s))))

\* '/'.join(parts)
RECURSIVE JoinSlash(_)
JoinSlash(parts) ==
    IF Len(parts) = 0 THEN <<>>
    ELSE IF Len(parts) = 1 THEN parts[1]
    ELSE parts[1] \o <<"/">> \o JoinSlash(Tail(parts))


(***************************************************************************)
(* urllib.parse as the code uses it: urlparse (utils.py:17, crawler.py:14, *)
(* main.py:73, app.py:220) and urljoin (crawler.py:45).  The texts of the  *)
(* model hold no ';' parameters, brackets, blanks or control characters.   *)
(***************************************************************************)
HTTP == <<"h","t","t","p">>
HTTPS == <<"h","t","t","p","s">>
FTP == <<"f","t","p">>
FILE == <<"f","i","l","e">>

\* the schemes of urllib's uses_relative / uses_netloc that occur in the model
uses_relative == {<<>>, FTP, HTTP, HTTPS, FILE}
uses_netloc == {<<>>, FTP, HTTP, HTTPS, FILE}

scheme_chars == Range(LOWERCASE) \cup Range(UPPERCASE) \cup DIGITS \cup {"+", "-", "."}

\* urlsplit: the text split at its first '#' and then at its first '?'
SplitTail(scheme, netloc, rest) ==
    With(FindAny(rest, {"#"}, 1), LAMBDA h :
    With(IF h = 0 THEN rest ELSE Slice(rest, 1, h - 1), LAMBDA rest3 :
    With(FindAny(rest3, {"?"}, 1), LAMBDA q :
        [scheme |-> scheme, netloc |-> netloc,
         path |-> IF q = 0 THEN rest3 ELSE Slice(rest3, 1, q - 1),
         query |-> IF q = 0 THEN <<>> ELSE Slice(rest3, q + 1, Len(rest3)),
         fragment |-> IF h = 0 THEN <<>> ELSE Slice(rest, h + 1, Len(rest))])))

\* urlsplit: the netloc taken from a text that starts with '//'
SplitNetloc(scheme, rest) ==
    IF StartsWith(rest, <<"/", "/">>)
    THEN With(FindAny(rest, {"/", "?", "#"}, 3), LAMBDA d :
         With(IF d = 0 THEN Len(rest) + 1 ELSE d, LAMBDA delim :
             SplitTail(scheme, Slice(rest, 3, delim - 1),
                       Slice(rest, delim, Len(rest)))))
    ELSE SplitTail(scheme, <<>>, rest)

\* urlsplit(url, scheme=default): [scheme, netloc, path, query, fragment]
urlsplit(url, default) ==
    With(FindAny(url, {":"}, 1), LAMBDA i :
        IF /\ i > 1
           /\ IsAlpha(url[1])
           /\ \A k \in 1..(i - 1) : url[k] \in scheme_chars
        THEN SplitNetloc(Lower(Slice(url, 1, i - 1)), Slice(url, i + 1, Len(url)))
        ELSE SplitNetloc(default, url))

urlparse(url) == urlsplit(url, <<>>)

\* urlunsplit((scheme, netloc, path, query, fragment))
urlunsplit(p) ==
    With(IF \/ p.netloc # <<>>
            \/ /\ p.scheme # <<>>
               /\ p.scheme \in uses_netloc
               /\ ~StartsWith(p.path, <<"/", "/">>)
         THEN <<"/", "/">> \o p.netloc
              \o (IF p.path # <<>> /\ p.path[1] # "/" THEN <<"/">> ELSE <<>>)
              \o p.path
         ELSE p.path, LAMBDA u1 :
        (IF p.scheme # <<>> THEN p.scheme \o <<":">> ELSE <<>>)
        \o u1
        \o (IF p.query # <<>> THEN <<"?">> \o p.query ELSE <<>>)
        \o (IF p.fragment # <<>> THEN <<"#">> \o p.fragment ELSE <<>>))

\* segments[1:-1] = filter(None, segments[1:-1])
FilterMiddle(segs) ==
    IF Len(segs) < 3 THEN segs
    ELSE <<segs[1]>>
         \o SelectSeq(SubSeq(segs, 2, Len(segs) - 1), LAMBDA x : x # <<>>)
         \o <<segs[Len(segs)]>>

\* the loop of urljoin that resolves '.' and '..' segments
RECURSIVE ResolveDots(_, _)
ResolveDots(segs, acc) ==
    IF Len(segs) = 0 THEN acc
    ELSE IF Head(segs) = <<".", ".">>
    THEN ResolveDots(Tail(segs), Slice(acc, 1, Len(acc) - 1))
    ELSE IF Head(segs) = <<".">>
    THEN ResolveDots(Tail(segs), acc)
    ELSE ResolveDots(Tail(segs), Append(acc, Head(segs)))

\* urljoin: the path of the joined URL, from the base's and the link's
JoinPath(bpath, path) ==
    With(SplitSlash(bpath), LAMBDA bp :
    With(IF bp[Len(bp)] # <<>> THEN Slice(bp, 1, Len(bp) - 1) ELSE bp,
         LAMBDA base_parts :
    With(IF path[1] = "/" THEN SplitSlash(path)
         ELSE FilterMiddle(base_parts \o SplitSlash(path)), LAMBDA segments :
    With(ResolveDots(segments, <<>>), LAMBDA resolved :
    With(JoinSlash(IF segments[Len(segments)] \in {<<".">>, <<".", ".">>}
                   THEN Append(resolved, <<>>) ELSE resolved), LAMBDA joined :
        IF joined = <<>> THEN <<"/">> ELSE joined)))))

\* urljoin: the join of a link whose scheme is the base's and can be relative
JoinParsed(b, u) ==
    IF u.scheme \in uses_netloc /\ u.netloc # <<>> THEN urlunsplit(u)
    ELSE With(IF u.scheme \in uses_netloc THEN b.netloc ELSE u.netloc,
              LAMBDA netloc :
        IF u.path = <<>>
        THEN urlunsplit([scheme |-> u.scheme, netloc |-> netloc,
                         path |-> b.path,
                         query |-> IF u.query = <<>> THEN b.query ELSE u.query,
                         fragment |-> u.fragment])
        ELSE urlunsplit([scheme |-> u.scheme, netloc |-> netloc,
                         path |-> JoinPath(b.path, u.path),
                         query |-> u.query, fragment |-> u.fragment]))

\* urljoin(base, url)
urljoin(base, url) ==
    IF base = <<>> THEN url
    ELSE IF url = <<>> THEN base
    ELSE With(urlsplit(base, <<>>), LAMBDA b :
         With(urlsplit(url, b.scheme), LAMBDA u :
             IF u.scheme # b.scheme \/ u.scheme \notin uses_relative THEN url
             ELSE JoinParsed(b, u)))

(***************************************************************************)
(* src/src/utils.py: is_valid_url                                          *)
(***************************************************************************)
skip_extensions == {
    <<".","p","d","f">>, <<".","d","o","c">>, <<".","d","o","c","x">>,
    <<".","x","l","s">>, <<".","x","l","s","x">>, <<".","p","p","t">>,
    <<".","p","p","t","x">>,
    <<".","z","i","p">>, <<".","r","a","r">>, <<".","t","a","r">>,
    <<".","g","z">>, <<".","e","x","e">>, <<".","d","m","g">>,
    <<".","j","p","g">>, <<".","j","p","e","g">>, <<".","p","n","g">>,
    <<".","g","i","f">>, <<".","s","v","g">>, <<".","i","c","o">>,
    <<".","m","p","3">>, <<".","m","p","4">>, <<".","a","v","i">>,
    <<".","m","o","v">>, <<".","w","m","v">>,
    <<".","c","s","s">>, <<".","j","s">>, <<".","x","m","l">>,
    <<".","r","s","s">>}

skip_patterns == {
    <<"/","w","p","-","a","d","m","i","n","/">>, <<"/","a","d","m","i","n","/">>,
    <<"/","l","o","g","i","n","/">>, <<"/","l","o","g","o","u","t","/">>,
    <<"/","w","p","-","c","o","n","t","e","n","t","/">>,
    <<"/","w","p","-","i","n","c","l","u","d","e","s","/">>,
    <<"m","a","i","l","t","o",":">>, <<"t","e","l",":">>,
    <<"f","t","p",":">>, <<"f","i","l","e",":">>,
    <<"#">>, <<"j","a","v","a","s","c","r","i","p","t",":">>}

\* a scope test without the test of skip_patterns
is_valid_url_no_patterns(url, allowed_domain) ==
    With(urlparse(url), LAMBDA parsed :
    With(Lower(url) \o <<>>, LAMBDA url_lower :
        IF parsed.netloc = <<>> \/ parsed.scheme = <<>> THEN FALSE
        ELSE IF parsed.scheme \notin {HTTP, HTTPS} THEN FALSE
        ELSE IF allowed_domain # <<>> /\ parsed.netloc # allowed_domain THEN FALSE
        ELSE IF \E ext \in skip_extensions : EndsWith(url_lower, ext) THEN FALSE
        ELSE TRUE))

\* a scope test that never compares the authority with the allowed one
is_valid_url_any_authority(url, allowed_domain) ==
    With(urlparse(url), LAMBDA parsed :
    With(Lower(url) \o <<>>, LAMBDA url_lower :
        IF parsed.netloc = <<>> \/ parsed.scheme = <<>> THEN FALSE
        ELSE IF parsed.scheme \notin {HTTP, HTTPS} THEN FALSE
        ELSE IF \E ext \in skip_extensions : EndsWith(url_lower, ext) THEN FALSE
        ELSE IF \E pattern \in skip_patterns : Contains(url_lower, pattern) THEN FALSE
        ELSE TRUE))

\* a scope test that takes every host below the allowed one, in any case
is_valid_url_subdomains(url, allowed_domain) ==
    With(urlparse(url), LAMBDA parsed :
    With(Lower(url) \o <<>>, LAMBDA url_lower :
        IF parsed.netloc = <<>> \/ parsed.scheme = <<>> THEN FALSE
        ELSE IF parsed.scheme \notin {HTTP, HTTPS} THEN FALSE
        ELSE IF allowed_domain # <<>>
                /\ ~EndsWith(Lower(parsed.netloc), Lower(allowed_domain)) THEN FALSE
        ELSE IF \E ext \in skip_extensions : EndsWith(url_lower, ext) THEN FALSE
        ELSE IF \E pattern \in skip_patterns : Contains(url_lower, pattern) THEN FALSE
        ELSE TRUE))

\* is_valid_url(url, allowed_domain); allowed_domain = <<>> models both None
\* and '' (each is falsy at utils.py:28)
is_valid_url(url, allowed_domain) ==
    With(urlparse(url), LAMBDA parsed :
    With(Lower(url) \o <<>>, LAMBDA url_lower :
        IF parsed.netloc = <<>> \/ parsed.scheme = <<>> THEN FALSE
        ELSE IF parsed.scheme \notin {HTTP, HTTPS} THEN FALSE
        ELSE IF allowed_domain # <<>> /\ parsed.netloc # allowed_domain THEN FALSE
        ELSE IF \E ext \in skip_extensions : EndsWith(url_lower, ext) THEN FALSE
        ELSE IF \E pattern \in skip_patterns : Contains(url_lower, pattern) THEN FALSE
        ELSE TRUE))

(***************************************************************************)
(* The inputs of the model: seed URLs, and the page texts a fetch may      *)
(* return.  A page text is the sequence of its elements; the crawler reads *)
(* only its <a> elements.                                                  *)
(***************************************************************************)
Txt_http_a == <<"h","t","t","p",":","/","/","a","/">>        \* http://a/
Txt_https_a == <<"h","t","t","p","s",":","/","/","a","/">>   \* https://a/
Txt_bare_a == <<"a","/">>                                    \* a/
Txt_http_none == <<"h","t","t","p",":","/","/">>             \* http://
Txt_p == Txt_http_a \o <<"p">>                               \* http://a/p
Txt_q == Txt_http_a \o <<"q">>                               \* http://a/q
Txt_rel_q == <<"/","q">>                                     \* /q
Txt_rel_r == <<"r">>                                         \* r
Txt_t == Txt_http_a \o <<"t">>                               \* http://a/t
Txt_w == Txt_http_a \o <<"w">>                               \* http://a/w
Txt_https_p == Txt_https_a \o <<"p">>                        \* https://a/p
Txt_b == <<"h","t","t","p",":","/","/","b","/">>             \* http://b/
Txt_sub == <<"h","t","t","p",":","/","/","s",".","a","/">>   \* http://s.a/
Txt_frag == <<"#","f">>                                      \* #f
Txt_mailto == <<"m","a","i","l","t","o",":","m">>            \* mailto:m
Txt_pdf == Txt_http_a \o <<"x",".","p","d","f">>             \* http://a/x.pdf

\* <a href="..."> and <a name="t"> (an anchor without href)
Anchor(href) == [tag |-> "a", attrs |-> [href |-> href]]
NamedAnchor == [tag |-> "a", attrs |-> [name |-> <<"t">>]]

\* Scenario C of the specification: five links of the seed's authority and
\* two of another authority
ScenarioCBody ==
    <<Anchor(Txt_b), Anchor(Txt_p), Anchor(Txt_rel_q), Anchor(Txt_sub),
      Anchor(Txt_rel_r), Anchor(Txt_t), Anchor(Txt_w)>>

\* a page that links to the seed, to itself by a fragment, twice to /q, to
\* non-pages and to the same host under the other scheme
MixedBody ==
    <<Anchor(Txt_http_a), Anchor(Txt_frag), NamedAnchor, Anchor(Txt_rel_q),
      Anchor(Txt_mailto), Anchor(Txt_pdf), Anchor(Txt_rel_q),
      Anchor(Txt_https_p)>>

\* a page that links to a sibling and back to http://a/q
BackBody == <<Anchor(Txt_rel_r), Anchor(Txt_q)>>

\* the page texts a successful fetch may return
Bodies == {<<>>, MixedBody, BackBody, ScenarioCBody}

\* soup.find_all('a', href=True), as the sequence of href values
Hrefs(body) ==
    With(SelectSeq(body, LAMBDA e : e.tag = "a" /\ "href" \in DOMAIN e.attrs),
         LAMBDA links : [i \in DOMAIN links |-> links[i].attrs.href])

\* the URL arguments a run may be started with
SeedInputs == {Txt_http_a, Txt_bare_a, Txt_http_none}

\* who constructs the crawler: main() of main.py, run_seo_scan() of app.py,
\* or a client of the WebCrawler class itself
Entries == {"main", "app", "api"}

MaxBudget == 4   \* max_pages ranges over 1..MaxBudget
MaxCalls == 2    \* crawl_site() calls made on one WebCrawler by an api client
MaxFailures == 2 \* failed fetches within one crawl_site() call


HTTP_PREFIX == <<"h","t","t","p",":","/","/">>
HTTPS_PREFIX == <<"h","t","t","p","s",":","/","/">>

\* main.py:64-67: the URL argument with https:// put in front when it starts
\* with neither http:// nor https://
WithScheme(url) ==
    IF StartsWith(url, HTTP_PREFIX) \/ StartsWith(url, HTTPS_PREFIX)
    THEN url ELSE HTTPS_PREFIX \o url

(***************************************************************************)
(* The documents the analyzer is given.  A document is put together from   *)
(* one choice for each of its parts; an element is [tag, attrs, text].     *)
(***************************************************************************)
\* the texts the analyzer looks for
JAVASCRIPT == <<"j","a","v","a","s","c","r","i","p","t",":">>
DESCRIPTION == <<"d","e","s","c","r","i","p","t","i","o","n">>
VIEWPORT == <<"v","i","e","w","p","o","r","t">>
ROBOTS == <<"r","o","b","o","t","s">>
CANONICAL == <<"c","a","n","o","n","i","c","a","l">>
LD_JSON ==
    <<"a","p","p","l","i","c","a","t","i","o","n","/","l","d","+","j","s","o","n">>

NoAttrs == [name \in {} |-> <<>>]
Element(tag, attrs, text) == [tag |-> tag, attrs |-> attrs, text |-> text]

Txt_en == <<"e","n">>
Txt_title == <<" ","H","o","m","e"," ","p","a","g","e","\n">>                 \* " Home page\n"
Txt_blank == <<" ","\n">>
Txt_summary == <<" ","A"," ","p","a","g","e"," ">>
Txt_top == <<"T","o","p">>
Txt_pic == <<"a"," ","p","i","c">>
Txt_words == <<"T","w","o"," ","w","o","r","d","s">>
Txt_mixed == <<"I","t","'","s"," ","3","_","x"," ","d","o","n","e",".","\t","O","K">>   \* 5 tokens
Txt_json == <<"{","\"","k","\"",":"," ","\"","v"," ","w","\"","}">>
Txt_code == <<"v","a","r"," ","a"," ","="," ","1",";">>
Txt_css == <<"p"," ","{"," ","t","o","p",":"," ","0"," ","}">>
Txt_width == <<"w","i","d","t","h","=","1">>
Txt_noindex == <<"n","o","i","n","d","e","x">>
Txt_js == JAVASCRIPT \o <<"v">>                                    \* javascript:v
Txt_tel == <<"t","e","l",":","1">>
Txt_proto_rel == <<"/","/","b","/","p">>
Txt_a8 == <<"h","t","t","p",":","/","/","a",":","8","/">>
Txt_top_frag == <<"#","t","o","p">>

\* <html> and <head>: bare; with a title, a description and the technical
\* elements; with a blank title and a blank description; with a description
\* that has no content
HeadParts ==
    {<<Element("html", NoAttrs, <<>>)>>,
     <<Element("html", [lang |-> Txt_en], <<>>),
       Element("title", NoAttrs, Txt_title),
       Element("meta", [name |-> DESCRIPTION, content |-> Txt_summary], <<>>),
       Element("meta", [name |-> VIEWPORT, content |-> Txt_width], <<>>),
       Element("link", [rel |-> CANONICAL, href |-> Txt_http_a], <<>>),
       Element("meta", [name |-> ROBOTS, content |-> Txt_noindex], <<>>)>>,
     <<Element("html", [lang |-> <<>>], <<>>),
       Element("title", NoAttrs, Txt_blank),
       Element("meta", [name |-> DESCRIPTION, content |-> Txt_blank], <<>>),
       Element("link", [rel |-> CANONICAL], <<>>)>>,
     <<Element("html", NoAttrs, <<>>),
       Element("title", NoAttrs, Txt_top),
       Element("meta", [name |-> DESCRIPTION], <<>>),
       Element("meta", [name |-> ROBOTS], <<>>)>>}

HeadingParts ==
    {<<>>,
     <<Element("h1", NoAttrs, Txt_top)>>,
     <<Element("h2", NoAttrs, Txt_top), Element("h1", NoAttrs, Txt_blank),
       Element("h3", NoAttrs, <<>>), Element("h1", NoAttrs, Txt_top),
       Element("h3", NoAttrs, Txt_top)>>}

ImageParts ==
    {<<>>,
     <<Element("img", [alt |-> Txt_pic], <<>>)>>,
     <<Element("img", [src |-> Txt_rel_q], <<>>),
       Element("img", [alt |-> Txt_blank], <<>>),
       Element("img", [alt |-> <<>>], <<>>),
       Element("img", [alt |-> Txt_pic], <<>>)>>}

LinkParts ==
    {<<>>,
     <<Element("a", [href |-> Txt_top_frag], Txt_top),
       Element("a", [href |-> Txt_js], <<>>),
       Element("a", [name |-> Txt_top], <<>>)>>,
     <<Element("a", [href |-> Txt_p], Txt_top),
       Element("a", [href |-> Txt_b], <<>>),
       Element("a", [href |-> Txt_rel_q], <<>>),
       Element("a", [href |-> Txt_a8], <<>>),
       Element("a", [href |-> Txt_https_a], <<>>)>>,
     <<Element("a", [href |-> Txt_mailto], <<>>),
       Element("a", [href |-> Txt_tel], <<>>),
       Element("a", [href |-> Txt_proto_rel], <<>>),
       Element("a", [href |-> Txt_rel_r], <<>>),
       Element("a", [href |-> <<>>], <<>>)>>}

TextParts ==
    {<<>>,
     <<Element("p", NoAttrs, Txt_words), Element("p", NoAttrs, Txt_mixed)>>}

ScriptParts ==
    {<<>>,
     <<Element("script", [type |-> LD_JSON], Txt_json)>>,
     <<Element("script", NoAttrs, Txt_code), Element("style", NoAttrs, Txt_css)>>,
     <<Element("style", NoAttrs, <<>>),
       Element("script", [type |-> LD_JSON], <<>>),
       Element("script", [src |-> Txt_rel_q], <<>>)>>}

\* the parsed documents and the URLs they are analysed under
Documents ==
    {head \o headings \o images \o links \o text \o scripts :
        head \in HeadParts, headings \in HeadingParts, images \in ImageParts,
        links \in LinkParts, text \in TextParts, scripts \in ScriptParts}
DocumentURLs == {Txt_http_a, Txt_b}
DocumentHrefs == UNION {Range(Hrefs(links)) : links \in LinkParts}

\* a page without title, description, headings, viewport, language and
\* canonical link, with three images without alt text, 100 words of text
\* and a script
HundredWords == [i \in 1..200 |-> IF i % 2 = 1 THEN "w" ELSE " "]
ScenarioAPage ==
    <<Element("html", NoAttrs, <<>>),
      Element("img", [src |-> Txt_rel_q], <<>>),
      Element("img", [alt |-> <<>>], <<>>),
      Element("img", [alt |-> Txt_blank], <<>>),
      Element("p", NoAttrs, HundredWords),
      Element("script", NoAttrs, Txt_code)>>

\* a page whose title and description are there and empty
EmptyDescriptionPage ==
    <<Element("html", [lang |-> Txt_en], <<>>),
      Element("title", NoAttrs, <<>>),
      Element("meta", [name |-> DESCRIPTION, content |-> <<>>], <<>>),
      Element("h1", NoAttrs, Txt_top),
      Element("p", NoAttrs, Txt_words)>>

\* the texts an edit gives a script or style element
ScriptTexts == {<<>>, Txt_code, Txt_words}

(***************************************************************************)
(* urljoin and is_valid_url tabulated over the texts the model can meet,   *)
(* so that a step of the crawler looks a result up instead of computing it *)
(* character by character again.                                           *)
(***************************************************************************)
AllHrefs == UNION {Range(Hrefs(body)) : body \in Bodies}
SeedURLs == SeedInputs \cup {WithScheme(url) : url \in SeedInputs}
Domains == {urlparse(url).netloc : url \in SeedURLs}

\* the seeds and every URL a crawl can come to enqueue
RECURSIVE Reach(_)
Reach(S) ==
    With(S \cup {u \in {urljoin(base, href) : base \in S, href \in AllHrefs} :
                   \E d \in Domains : is_valid_url(u, d)},
         LAMBDA T : IF T = S THEN S ELSE Reach(T))

PageURLs == Reach(SeedURLs)

\* (@@ <<>> leaves the function as it is and has it tabulated once)
JoinTable ==
    [base \in PageURLs |-> [href \in AllHrefs |-> urljoin(base, href)] @@ <<>>] @@ <<>>

\* urlparse of every URL and href the crawl can meet
ParseTable ==
    [u \in PageURLs \cup AllHrefs \cup DocumentURLs \cup DocumentHrefs |->
        urlparse(u)] @@ <<>>

ValidTable ==
    [d \in Domains |->
        [u \in {JoinTable[base][href] : base \in PageURLs, href \in AllHrefs} |->
            is_valid_url(u, d)] @@ <<>>] @@ <<>>

(***************************************************************************)
(* State.                                                                  *)
(***************************************************************************)
VARIABLES
    entry,           \* who runs the crawler (Entries)
    arg_url,         \* the URL argument of the run
    arg_max_pages,   \* the max_pages argument of the run
    pc,              \* "start", "constructed", "crawl", "returned", "done"
    base_url,        \* WebCrawler.base_url
    max_pages,       \* WebCrawler.max_pages
    domain,          \* WebCrawler.domain
    visited_urls,    \* WebCrawler.visited_urls
    pages_to_crawl,  \* crawl_site: the frontier
    crawled_pages,   \* crawl_site: the result, a sequence of <<url, text>>
    calls,           \* crawl_site() calls made on the instance so far
    pages_data,      \* the pipeline's analyze_page results
    trace,           \* the pipeline stages run after the crawl, in order
    result,          \* how the pipeline ended
    failed,          \* history: the URLs whose fetch failed in this call, in order
    depth,           \* history: link depth at which a URL was first enqueued
    cand_scheme,     \* is_valid_url call: the scheme the candidate is built with
    cand_auth,       \* is_valid_url call: the authority it is built with
    cand_rest,       \* is_valid_url call: its path, query and fragment
    allowed,         \* is_valid_url call: the allowed_domain argument
    verdict,         \* is_valid_url call: the values returned so far
    page_url,        \* analyze_page call: the url argument
    markup,          \* analyze_page call: the parsed html_content
    analysis,        \* analyze_page call: the records returned so far
    page,            \* detect_page_issues call: the page record
    detected         \* detect_page_issues call: the lists returned so far

vars == <<entry, arg_url, arg_max_pages, pc, base_url, max_pages, domain,
          visited_urls, pages_to_crawl, crawled_pages, calls, pages_data,
          trace, result, failed, depth,
          cand_scheme, cand_auth, cand_rest, allowed, verdict,
          page_url, markup, analysis, page, detected>>

\* the variables of the specifications of single functions
scope_vars == <<cand_scheme, cand_auth, cand_rest, allowed, verdict>>
analyzer_vars == <<page_url, markup, analysis>>
detector_vars == <<page, detected>>
pure_vars == <<scope_vars, analyzer_vars, detector_vars>>

crawler_vars == <<base_url, max_pages, domain, visited_urls>>
pipeline_vars == <<pages_data, trace, result>>
input_vars == <<entry, arg_url, arg_max_pages>>

\* no is_valid_url call under way
ScopeIdle ==
    /\ cand_scheme = <<>>
    /\ cand_auth = <<>>
    /\ cand_rest = <<>>
    /\ allowed = <<>>
    /\ verdict = <<>>

\* no analyze_page call under way
AnalyzerIdle ==
    /\ page_url = <<>>
    /\ markup = <<>>
    /\ analysis = <<>>

\* no detect_page_issues call under way
DetectorIdle ==
    /\ page = <<>>
    /\ detected = <<>>

Init ==
    /\ entry \in Entries
    /\ arg_url \in SeedInputs
    /\ arg_max_pages \in 1..MaxBudget
    /\ pc = "start"
    /\ ScopeIdle
    /\ AnalyzerIdle
    /\ DetectorIdle
    /\ base_url = <<>>
    /\ max_pages = 0
    /\ domain = <<>>
    /\ visited_urls = {}
    /\ pages_to_crawl = <<>>
    /\ crawled_pages = <<>>
    /\ calls = 0
    /\ pages_data = <<>>
    /\ trace = <<>>
    /\ result = "none"
    /\ failed = <<>>
    /\ depth = {}

(***************************************************************************)
(* src/src/crawler.py: WebCrawler                                          *)
(***************************************************************************)
\* WebCrawler.__init__(base_url, max_pages)
Construct(url, budget) ==
    /\ base_url' = url
    /\ max_pages' = budget
    /\ visited_urls' = {}
    /\ domain' = urlparse(url).netloc

\* the while condition of crawl_site
\* a guard that is off by one: it admits one more iteration
LoopGuard_inclusive(frontier, crawled, budget) ==
    frontier # <<>> /\ Len(crawled) <= budget

LoopGuard(frontier, crawled, budget) ==
    frontier # <<>> /\ Len(crawled) < budget

\* a condition that does not look at the frontier
ShouldEnqueue_unvisited(full_url, dom, visited, frontier) ==
    /\ ValidTable[dom][full_url]
    /\ full_url \notin visited

\* the condition under which a resolved link is appended to the frontier
ShouldEnqueue(full_url, dom, visited, frontier) ==
    /\ ValidTable[dom][full_url]
    /\ full_url \notin visited
    /\ full_url \notin Range(frontier)

\* a link loop that pushes each accepted link on the front of the frontier
RECURSIVE EnqueueLinks_front(_, _, _, _, _)
EnqueueLinks_front(hrefs, current_url, dom, visited, frontier) ==
    IF hrefs = <<>> THEN frontier
    ELSE With(JoinTable[current_url][Head(hrefs)], LAMBDA full_url :
         With(IF ShouldEnqueue(full_url, dom, visited, frontier)
              THEN <<full_url>> \o frontier
              ELSE frontier, LAMBDA frontier1 :
         With(Tail(hrefs), LAMBDA rest :
             EnqueueLinks_front(rest, current_url, dom, visited, frontier1))))

\* the for loop over the links of a fetched page: the frontier it leaves
RECURSIVE EnqueueLinks(_, _, _, _, _)
EnqueueLinks(hrefs, current_url, dom, visited, frontier) ==
    IF hrefs = <<>> THEN frontier
    ELSE With(JoinTable[current_url][Head(hrefs)], LAMBDA full_url :
         With(IF ShouldEnqueue(full_url, dom, visited, frontier)
              THEN Append(frontier, full_url)
              ELSE frontier, LAMBDA frontier1 :
         With(Tail(hrefs), LAMBDA rest :
             EnqueueLinks(rest, current_url, dom, visited, frontier1))))

\* session.get + raise_for_status can only succeed on an http(s) URL with a
\* host: requests raises MissingSchema, InvalidSchema or InvalidURL otherwise
Fetchable(url) ==
    ParseTable[url].scheme \in {HTTP, HTTPS} /\ ParseTable[url].netloc # <<>>

\* a failure handler that puts the URL back on the frontier for another try
AfterFailure_retry(current_url, visited, crawled, rest) ==
    [visited |-> visited, crawled |-> crawled,
     frontier |-> Append(rest, current_url)]

\* a failure handler that marks the URL visited
AfterFailure_visited(current_url, visited, crawled, rest) ==
    [visited |-> visited \cup {current_url}, crawled |-> crawled,
     frontier |-> rest]

\* what a failed fetch of current_url leaves of the visited set, the result
\* and the frontier (the except branch: continue)
AfterFailure(current_url, visited, crawled, rest) ==
    [visited |-> visited, crawled |-> crawled, frontier |-> rest]

\* a success handler that never records the URL in the visited set
AfterSuccess_unrecorded(current_url, body, dom, visited, crawled, rest) ==
    [visited |-> visited,
     crawled |-> Append(crawled, <<current_url, body>>),
     frontier |-> EnqueueLinks(Hrefs(body), current_url, dom, visited, rest)]

\* a success handler that marks every link it enqueues as visited
AfterSuccess_marks_links(current_url, body, dom, visited, crawled, rest) ==
    With(visited \cup {current_url}, LAMBDA visited1 :
    With(EnqueueLinks(Hrefs(body), current_url, dom, visited1, rest), LAMBDA frontier :
        [visited |-> visited1 \cup Range(frontier),
         crawled |-> Append(crawled, <<current_url, body>>),
         frontier |-> frontier]))

\* what a successful fetch of current_url with text body leaves of them
AfterSuccess(current_url, body, dom, visited, crawled, rest) ==
    With(visited \cup {current_url}, LAMBDA visited1 :
        [visited |-> visited1,
         crawled |-> Append(crawled, <<current_url, body>>),
         frontier |-> EnqueueLinks(Hrefs(body), current_url, dom, visited1, rest)])

\* history: depth is a set of <<url, d>>; the URLs of the frontier new that
\* were never enqueued before get depth d
Discovered(dep) == {e[1] : e \in dep}
DepthOf(dep, u) == (CHOOSE e \in dep : e[1] = u)[2]
Discover(dep, new, d) ==
    dep \cup {<<u, d>> : u \in {x \in Range(new) : x \notin Discovered(dep)}}

\* crawl_site(): entry, lines 18-19
CallCrawlSite ==
    /\ \/ pc = "constructed"
       \/ pc = "returned" /\ entry = "api" /\ calls < MaxCalls
    /\ pages_to_crawl' = <<base_url>>
    /\ crawled_pages' = <<>>
    /\ calls' = calls + 1
    /\ failed' = <<>>
    /\ depth' = Discover({}, <<base_url>>, 0)
    /\ pc' = "crawl"
    /\ UNCHANGED <<pure_vars, input_vars, crawler_vars, pipeline_vars>>

\* one iteration of the while loop whose popped URL is already visited
CrawlSkip ==
    /\ pc = "crawl"
    /\ LoopGuard(pages_to_crawl, crawled_pages, max_pages)
    /\ Head(pages_to_crawl) \in visited_urls
    /\ pages_to_crawl' = Tail(pages_to_crawl)
    /\ UNCHANGED <<pure_vars, input_vars, crawler_vars, pipeline_vars, pc, crawled_pages,
                   calls, failed, depth>>

\* one iteration of the while loop whose fetch raises
CrawlFail ==
    /\ pc = "crawl"
    /\ LoopGuard(pages_to_crawl, crawled_pages, max_pages)
    /\ Head(pages_to_crawl) \notin visited_urls
    /\ Len(failed) < MaxFailures
    /\ \E current_url \in {Head(pages_to_crawl)} :
       \E after \in {AfterFailure(current_url, visited_urls, crawled_pages,
                                    Tail(pages_to_crawl))} :
           /\ visited_urls' = after.visited
           /\ crawled_pages' = after.crawled
           /\ pages_to_crawl' = after.frontier
           /\ failed' = Append(failed, current_url)
    /\ UNCHANGED <<pure_vars, input_vars, base_url, max_pages, domain, pipeline_vars, pc,
                   calls, depth>>

\* one iteration of the while loop whose fetch returns the text body
CrawlFetch ==
    /\ pc = "crawl"
    /\ LoopGuard(pages_to_crawl, crawled_pages, max_pages)
    /\ Head(pages_to_crawl) \notin visited_urls
    /\ Fetchable(Head(pages_to_crawl))
    /\ \E body \in Bodies, current_url \in {Head(pages_to_crawl)} :
         \E after \in {AfterSuccess(current_url, body, domain, visited_urls,
                                    crawled_pages, Tail(pages_to_crawl))} :
             /\ visited_urls' = after.visited
             /\ crawled_pages' = after.crawled
             /\ pages_to_crawl' = after.frontier
             /\ depth' = Discover(depth, after.frontier, DepthOf(depth, current_url) + 1)
    /\ UNCHANGED <<pure_vars, input_vars, base_url, max_pages, domain, pipeline_vars, pc, calls,
                   failed>>

\* the while loop ends and crawl_site returns crawled_pages
CrawlReturn ==
    /\ pc = "crawl"
    /\ ~LoopGuard(pages_to_crawl, crawled_pages, max_pages)
    /\ pc' = "returned"
    /\ UNCHANGED <<pure_vars, input_vars, crawler_vars, pipeline_vars, pages_to_crawl,
                   crawled_pages, calls, failed, depth>>


(***************************************************************************)
(* src/src/analyzer.py: PageAnalyzer.  A document is the sequence of the   *)
(* elements BeautifulSoup's html.parser finds in the markup, in document   *)
(* order: [tag, attrs, text], with text the element's own text (the raw    *)
(* content of a script or style element).  page_size, the length of the    *)
(* raw markup, is not part of the record of the model.                     *)
(***************************************************************************)

\* str.strip()
WHITESPACE == {" ", "\t", "\n"}
Strip(s) ==
    With({i \in DOMAIN s : s[i] \notin WHITESPACE}, LAMBDA keep :
        IF keep = {} THEN <<>>
        ELSE Slice(s, CHOOSE i \in keep : \A j \in keep : i <= j,
                      CHOOSE i \in keep : \A j \in keep : j <= i))

\* element.get_text() of one element, tag.get(name) being set, and
\* `tag and tag.get(name)`
TextOf(e) == IF "text" \in DOMAIN e THEN e.text ELSE <<>>
HasAttr(e, name) == name \in DOMAIN e.attrs
Truthy(e, name) == HasAttr(e, name) /\ e.attrs[name] # <<>>

\* soup.find_all(tag) and soup.find_all(tag, attrs={name: value})
FindAll(soup, tag) == SelectSeq(soup, LAMBDA e : e.tag = tag)
FindAllWith(soup, tag, name, value) ==
    SelectSeq(soup, LAMBDA e :
        e.tag = tag /\ HasAttr(e, name) /\ e.attrs[name] = value)

\* _get_title
get_title(soup) ==
    With(FindAll(soup, "title"), LAMBDA tags :
        IF tags # <<>> THEN Strip(TextOf(tags[1])) ELSE <<>>)

\* a description that is taken as it stands, blanks included
get_meta_description_unstripped(soup) ==
    With(FindAllWith(soup, "meta", "name", DESCRIPTION), LAMBDA tags :
        IF tags # <<>> /\ Truthy(tags[1], "content")
        THEN tags[1].attrs.content ELSE <<>>)

\* _get_meta_description
get_meta_description(soup) ==
    With(FindAllWith(soup, "meta", "name", DESCRIPTION), LAMBDA tags :
        IF tags # <<>> /\ Truthy(tags[1], "content")
        THEN Strip(tags[1].attrs.content) ELSE <<>>)

\* a header count that leaves the h3 tags out of the total
analyze_headers_without_h3(soup) ==
    With(FindAll(soup, "h1"), LAMBDA h1_tags :
        [h1_count |-> Len(h1_tags),
         h1_text |-> IF h1_tags # <<>> THEN Strip(TextOf(h1_tags[1])) ELSE <<>>,
         h2_count |-> Len(FindAll(soup, "h2")),
         h3_count |-> Len(FindAll(soup, "h3")),
         total_headings |-> Len(h1_tags) + Len(FindAll(soup, "h2"))])

\* _analyze_headers
analyze_headers(soup) ==
    With(FindAll(soup, "h1"), LAMBDA h1_tags :
    With(FindAll(soup, "h2"), LAMBDA h2_tags :
    With(FindAll(soup, "h3"), LAMBDA h3_tags :
        [h1_count |-> Len(h1_tags),
         h1_text |-> IF h1_tags # <<>> THEN Strip(TextOf(h1_tags[1])) ELSE <<>>,
         h2_count |-> Len(h2_tags),
         h3_count |-> Len(h3_tags),
         total_headings |-> Len(h1_tags) + Len(h2_tags) + Len(h3_tags)])))

\* an image count that misses the images whose alt is empty or blank
analyze_images_absent_only(soup) ==
    With(FindAll(soup, "img"), LAMBDA images :
        [total_images |-> Len(images),
         images_without_alt |-> Cardinality({i \in DOMAIN images :
             ~HasAttr(images[i], "alt")})])

\* _analyze_images
analyze_images(soup) ==
    With(FindAll(soup, "img"), LAMBDA images :
        [total_images |-> Len(images),
         images_without_alt |-> Cardinality({i \in DOMAIN images :
             \/ ~Truthy(images[i], "alt")
             \/ Strip(images[i].attrs.alt) = <<>>})])

\* a classification that passes over every href with a scheme of its own
LinkClass_relative_only(href, current_domain) ==
    IF StartsWith(href, <<"#">>) \/ StartsWith(href, JAVASCRIPT) THEN "skip"
    ELSE IF StartsWith(href, HTTP)
    THEN IF ParseTable[href].netloc = current_domain THEN "internal" ELSE "external"
    ELSE IF ":" \in Range(href) THEN "skip"
    ELSE "internal"

\* _analyze_links: "skip", "internal" or "external" for one href
LinkClass(href, current_domain) ==
    IF StartsWith(href, <<"#">>) \/ StartsWith(href, JAVASCRIPT) THEN "skip"
    ELSE IF StartsWith(href, HTTP)
    THEN IF ParseTable[href].netloc = current_domain THEN "internal" ELSE "external"
    ELSE "internal"

\* _analyze_links
analyze_links(soup, current_url) ==
    With(Hrefs(soup), LAMBDA hrefs :
    With(ParseTable[current_url].netloc, LAMBDA current_domain :
        [total_links |-> Len(hrefs),
         internal_links |-> Cardinality({i \in DOMAIN hrefs :
             LinkClass(hrefs[i], current_domain) = "internal"}),
         external_links |-> Cardinality({i \in DOMAIN hrefs :
             LinkClass(hrefs[i], current_domain) = "external"})]))

\* what `for script in soup(["script", "style"]): script.decompose()` leaves
\* of the soup
Decompose(soup) == SelectSeq(soup, LAMBDA e : e.tag \notin {"script", "style"})

\* soup.get_text()
RECURSIVE GetText(_)
GetText(soup) ==
    IF soup = <<>> THEN <<>> ELSE TextOf(Head(soup)) \o GetText(Tail(soup))

\* len(re.findall(r'\b\w+\b', text.lower())): the runs of word characters
WordChars == Range(LOWERCASE) \cup Range(UPPERCASE) \cup DIGITS \cup {"_"}
CountTokens(text) ==
    With(Lower(text) \o <<>>, LAMBDA lowered :
        Cardinality({i \in DOMAIN lowered :
            /\ lowered[i] \in WordChars
            /\ i = 1 \/ lowered[i - 1] \notin WordChars}))

\* a word count over the whole soup, scripts and styles included
count_words_everywhere(soup) == CountTokens(GetText(soup))

\* _count_words: the value returned; the soup it leaves is Decompose(soup)
count_words(soup) == CountTokens(GetText(Decompose(soup)))

\* _analyze_technical_seo
analyze_technical_seo(soup) ==
    With(FindAll(soup, "html"), LAMBDA html_tags :
    With(FindAllWith(soup, "link", "rel", CANONICAL), LAMBDA canonical :
    With(FindAllWith(soup, "meta", "name", ROBOTS), LAMBDA robots :
        [has_viewport_meta |->
             FindAllWith(soup, "meta", "name", VIEWPORT) # <<>>,
         lang_attribute |->
             IF html_tags # <<>> /\ Truthy(html_tags[1], "lang")
             THEN html_tags[1].attrs.lang ELSE <<>>,
         canonical_url |->
             IF canonical # <<>> /\ Truthy(canonical[1], "href")
             THEN canonical[1].attrs.href ELSE <<>>,
         robots_meta |->
             IF robots # <<>> /\ Truthy(robots[1], "content")
             THEN robots[1].attrs.content ELSE <<>>,
         schema_markup |->
             Len(FindAllWith(soup, "script", "type", LD_JSON)) > 0])))

\* analyze_page(url, html_content), soup being the parsed html_content; the
\* technical elements are read from the soup _count_words has left
analyze_page(analyzer_domain, url, soup) ==
    With(get_title(soup), LAMBDA title :
    With(get_meta_description(soup), LAMBDA meta_desc :
    With(analyze_headers(soup), LAMBDA headers :
    With(analyze_images(soup), LAMBDA images :
    With(analyze_links(soup, url), LAMBDA links :
    With(count_words(soup), LAMBDA word_count :
    With(analyze_technical_seo(Decompose(soup)), LAMBDA technical :
        [url |-> url, domain |-> analyzer_domain,
         title |-> title,
         title_length |-> IF title # <<>> THEN Len(title) ELSE 0,
         has_meta_description |-> meta_desc # <<>>,
         meta_desc_length |-> IF meta_desc # <<>> THEN Len(meta_desc) ELSE 0,
         meta_description |-> meta_desc,
         word_count |-> word_count]
        @@ headers @@ images @@ links @@ technical)))))))

\* analyze_page of every page a crawl can return, tabulated
AnalysisTable ==
    [d \in Domains |->
        [url \in PageURLs |->
            [body \in Bodies |-> analyze_page(d, url, body)] @@ <<>>] @@ <<>>] @@ <<>>

(***************************************************************************)
(* src/src/issues.py: IssueDetector.  An issue is the dict the code        *)
(* appends; the texts of the detector are strings.                         *)
(***************************************************************************)
Issue(type, category, issue, url, recommendation) ==
    [type |-> type, category |-> category, issue |-> issue, url |-> url,
     recommendation |-> recommendation]

\* what an f-string makes of a non-negative int
DigitText == <<"0", "1", "2", "3", "4", "5", "6", "7", "8", "9">>
RECURSIVE Str(_)
Str(n) ==
    IF n < 10 THEN DigitText[n + 1]
    ELSE Str(n \div 10) \o DigitText[(n % 10) + 1]

\* a title check that takes a title of 30 characters for too short
check_title_issues_inclusive(page_data, url) ==
    IF page_data.title = <<>>
    THEN <<Issue("CRITICAL", "Title", "Missing title tag", url,
                 "Add a descriptive title tag (30-60 characters) that includes your main keyword")>>
    ELSE IF page_data.title_length <= 30
    THEN <<Issue("WARNING", "Title",
                 "Title too short (" \o Str(page_data.title_length) \o " characters)", url,
                 "Expand title to 30-60 characters for better SEO impact")>>
    ELSE IF page_data.title_length > 60
    THEN <<Issue("WARNING", "Title",
                 "Title too long (" \o Str(page_data.title_length) \o " characters)", url,
                 "Shorten title to 30-60 characters to prevent truncation in search results")>>
    ELSE <<>>

\* _check_title_issues
check_title_issues(page_data, url) ==
    IF page_data.title = <<>>
    THEN <<Issue("CRITICAL", "Title", "Missing title tag", url,
                 "Add a descriptive title tag (30-60 characters) that includes your main keyword")>>
    ELSE IF page_data.title_length < 30
    THEN <<Issue("WARNING", "Title",
                 "Title too short (" \o Str(page_data.title_length) \o " characters)", url,
                 "Expand title to 30-60 characters for better SEO impact")>>
    ELSE IF page_data.title_length > 60
    THEN <<Issue("WARNING", "Title",
                 "Title too long (" \o Str(page_data.title_length) \o " characters)", url,
                 "Shorten title to 30-60 characters to prevent truncation in search results")>>
    ELSE <<>>

\* a description check that takes a description of 160 characters for too
\* long
check_meta_description_issues_inclusive(page_data, url) ==
    IF ~page_data.has_meta_description
    THEN <<Issue("CRITICAL", "Meta Description", "Missing meta description", url,
                 "Add a compelling meta description (120-160 characters) that encourages clicks")>>
    ELSE IF page_data.meta_desc_length < 120
    THEN <<Issue("WARNING", "Meta Description",
                 "Meta description too short (" \o Str(page_data.meta_desc_length)
                     \o " characters)", url,
                 "Expand meta description to 120-160 characters for better search result display")>>
    ELSE IF page_data.meta_desc_length >= 160
    THEN <<Issue("WARNING", "Meta Description",
                 "Meta description too long (" \o Str(page_data.meta_desc_length)
                     \o " characters)", url,
                 "Shorten meta description to 120-160 characters to prevent truncation")>>
    ELSE <<>>

\* _check_meta_description_issues
check_meta_description_issues(page_data, url) ==
    IF ~page_data.has_meta_description
    THEN <<Issue("CRITICAL", "Meta Description", "Missing meta description", url,
                 "Add a compelling meta description (120-160 characters) that encourages clicks")>>
    ELSE IF page_data.meta_desc_length < 120
    THEN <<Issue("WARNING", "Meta Description",
                 "Meta description too short (" \o Str(page_data.meta_desc_length)
                     \o " characters)", url,
                 "Expand meta description to 120-160 characters for better search result display")>>
    ELSE IF page_data.meta_desc_length > 160
    THEN <<Issue("WARNING", "Meta Description",
                 "Meta description too long (" \o Str(page_data.meta_desc_length)
                     \o " characters)", url,
                 "Shorten meta description to 120-160 characters to prevent truncation")>>
    ELSE <<>>

\* a header check that reports the lack of headers only when there is an H1
check_header_issues_either(page_data, url) ==
    (IF page_data.h1_count = 0
     THEN <<Issue("CRITICAL", "Headers", "Missing H1 tag", url,
                  "Add exactly one H1 tag that describes the main topic of the page")>>
     ELSE IF page_data.h1_count > 1
     THEN <<Issue("WARNING", "Headers",
                  "Multiple H1 tags (" \o Str(page_data.h1_count) \o " found)", url,
                  "Use only one H1 tag per page. Convert additional H1s to H2 or H3 tags")>>
     ELSE <<>>)
    \o
    (IF page_data.h1_count # 0 /\ page_data.total_headings = 0
     THEN <<Issue("WARNING", "Headers", "No header tags found", url,
                  "Add header tags (H1, H2, H3) to structure your content and improve readability")>>
     ELSE <<>>)

\* _check_header_issues
check_header_issues(page_data, url) ==
    (IF page_data.h1_count = 0
     THEN <<Issue("CRITICAL", "Headers", "Missing H1 tag", url,
                  "Add exactly one H1 tag that describes the main topic of the page")>>
     ELSE IF page_data.h1_count > 1
     THEN <<Issue("WARNING", "Headers",
                  "Multiple H1 tags (" \o Str(page_data.h1_count) \o " found)", url,
                  "Use only one H1 tag per page. Convert additional H1s to H2 or H3 tags")>>
     ELSE <<>>)
    \o
    (IF page_data.total_headings = 0
     THEN <<Issue("WARNING", "Headers", "No header tags found", url,
                  "Add header tags (H1, H2, H3) to structure your content and improve readability")>>
     ELSE <<>>)

\* an image check that names the two counts the other way round
check_image_issues_swapped(page_data, url) ==
    IF page_data.total_images > 0 /\ page_data.images_without_alt > 0
    THEN <<Issue("WARNING", "Images",
                 Str(page_data.total_images) \o " of "
                     \o Str(page_data.images_without_alt) \o " images missing alt text", url,
                 "Add descriptive alt text to all images for better accessibility and SEO")>>
    ELSE <<>>

\* _check_image_issues
check_image_issues(page_data, url) ==
    IF page_data.total_images > 0 /\ page_data.images_without_alt > 0
    THEN <<Issue("WARNING", "Images",
                 Str(page_data.images_without_alt) \o " of "
                     \o Str(page_data.total_images) \o " images missing alt text", url,
                 "Add descriptive alt text to all images for better accessibility and SEO")>>
    ELSE <<>>

\* a content check that takes 150 words for a low volume
check_content_issues_inclusive(page_data, url) ==
    IF page_data.word_count <= 150
    THEN <<Issue("WARNING", "Content",
                 "Low content volume (" \o Str(page_data.word_count) \o " words)", url,
                 "Add more substantive content (aim for 300+ words) to provide value to users")>>
    ELSE IF page_data.word_count < 300
    THEN <<Issue("INFO", "Content",
                 "Moderate content volume (" \o Str(page_data.word_count) \o " words)", url,
                 "Consider expanding content to 300+ words for better SEO performance")>>
    ELSE <<>>

\* _check_content_issues
check_content_issues(page_data, url) ==
    IF page_data.word_count < 150
    THEN <<Issue("WARNING", "Content",
                 "Low content volume (" \o Str(page_data.word_count) \o " words)", url,
                 "Add more substantive content (aim for 300+ words) to provide value to users")>>
    ELSE IF page_data.word_count < 300
    THEN <<Issue("INFO", "Content",
                 "Moderate content volume (" \o Str(page_data.word_count) \o " words)", url,
                 "Consider expanding content to 300+ words for better SEO performance")>>
    ELSE <<>>

\* a technical check that stops at the first element it misses
check_technical_issues_chained(page_data, url) ==
    IF ~page_data.has_viewport_meta
    THEN <<Issue("WARNING", "Technical", "Missing viewport meta tag", url,
                 "Add viewport meta tag: <meta name=\"viewport\" content=\"width=device-width, initial-scale=1\">")>>
    ELSE IF page_data.lang_attribute = <<>>
    THEN <<Issue("WARNING", "Technical", "Missing language attribute", url,
                 "Add lang attribute to <html> tag (e.g., <html lang=\"en\">)")>>
    ELSE IF page_data.canonical_url = <<>>
    THEN <<Issue("INFO", "Technical", "Missing canonical URL", url,
                 "Consider adding canonical URL to prevent duplicate content issues")>>
    ELSE <<>>

\* _check_technical_issues
check_technical_issues(page_data, url) ==
    (IF ~page_data.has_viewport_meta
     THEN <<Issue("WARNING", "Technical", "Missing viewport meta tag", url,
                  "Add viewport meta tag: <meta name=\"viewport\" content=\"width=device-width, initial-scale=1\">")>>
     ELSE <<>>)
    \o
    (IF page_data.lang_attribute = <<>>
     THEN <<Issue("WARNING", "Technical", "Missing language attribute", url,
                  "Add lang attribute to <html> tag (e.g., <html lang=\"en\">)")>>
     ELSE <<>>)
    \o
    (IF page_data.canonical_url = <<>>
     THEN <<Issue("INFO", "Technical", "Missing canonical URL", url,
                  "Consider adding canonical URL to prevent duplicate content issues")>>
     ELSE <<>>)

\* detect_page_issues
detect_page_issues(page_data) ==
    With(page_data.url, LAMBDA url :
        check_title_issues(page_data, url)
        \o check_meta_description_issues(page_data, url)
        \o check_header_issues(page_data, url)
        \o check_image_issues(page_data, url)
        \o check_content_issues(page_data, url)
        \o check_technical_issues(page_data, url))

\* a detector that puts the issues of a later page before those of an
\* earlier one
RECURSIVE detect_all_issues_backwards(_)
detect_all_issues_backwards(records) ==
    IF records = <<>> THEN <<>>
    ELSE detect_all_issues_backwards(Tail(records))
             \o detect_page_issues(Head(records))

\* detect_all_issues
RECURSIVE detect_all_issues(_)
detect_all_issues(records) ==
    IF records = <<>> THEN <<>>
    ELSE detect_page_issues(Head(records)) \o detect_all_issues(Tail(records))

(***************************************************************************)
(* src/main.py: main, and src/app.py: run_seo_scan                         *)
(***************************************************************************)
\* a validation that lets every URL through
InvalidSeed_never(url) == FALSE

\* main.py:71-79, app.py:219-223: whether the run is refused as an invalid URL
InvalidSeed(url) == urlparse(url).netloc = <<>>

\* the start of a pipeline run on website_url: refuse it, or build the crawler
StartRun(website_url) ==
    IF InvalidSeed(website_url)
    THEN /\ pc' = "done"
         /\ result' = "invalid_url"
         /\ UNCHANGED <<crawler_vars>>
    ELSE /\ pc' = "constructed"
         /\ result' = result
         /\ Construct(website_url, arg_max_pages)

\* main(): lines 63-90
MainStart ==
    /\ pc = "start"
    /\ entry = "main"
    /\ StartRun(WithScheme(arg_url))
    /\ UNCHANGED <<pure_vars, input_vars, pages_to_crawl, crawled_pages, calls, pages_data,
                   trace, failed, depth>>

\* run_seo_scan(url, max_pages): lines 219-234
AppStart ==
    /\ pc = "start"
    /\ entry = "app"
    /\ StartRun(arg_url)
    /\ UNCHANGED <<pure_vars, input_vars, pages_to_crawl, crawled_pages, calls, pages_data,
                   trace, failed, depth>>

\* a client of the class: WebCrawler(url, max_pages=n)
ApiStart ==
    /\ pc = "start"
    /\ entry = "api"
    /\ Construct(arg_url, arg_max_pages)
    /\ pc' = "constructed"
    /\ UNCHANGED <<pure_vars, input_vars, pages_to_crawl, crawled_pages, calls,
                   pipeline_vars, failed, depth>>

\* a pipeline that never takes the empty-result path
EmptyResult_never(crawled) == FALSE

\* whether the pipeline stops at an empty crawl result (main.py:99,
\* app.py:252)
EmptyResult(crawled) == crawled = <<>>

\* main(): lines 99-142, run_seo_scan(): lines 252-300: the pipeline after
\* crawl_site has returned
AfterCrawl ==
    /\ pc = "returned"
    /\ entry \in {"main", "app"}
    /\ IF EmptyResult(crawled_pages)
       THEN /\ result' = "no_pages"
            /\ UNCHANGED <<pages_data, trace>>
       ELSE /\ result' = "ok"
            /\ pages_data' = [i \in DOMAIN crawled_pages |->
                                AnalysisTable[domain][crawled_pages[i][1]]
                                             [crawled_pages[i][2]]]
            /\ trace' = [i \in DOMAIN crawled_pages |-> "analyze_page"]
                        \o <<"detect_all_issues", "report">>
    /\ pc' = "done"
    /\ UNCHANGED <<pure_vars, input_vars, crawler_vars, pages_to_crawl, crawled_pages,
                   calls, failed, depth>>

Next ==
    \/ MainStart
    \/ AppStart
    \/ ApiStart
    \/ CallCrawlSite
    \/ CrawlSkip
    \/ CrawlFail
    \/ CrawlFetch
    \/ CrawlReturn
    \/ AfterCrawl

Spec == Init /\ [][Next]_vars

\* crawl_site runs in one thread that nothing suspends: a step that can be
\* taken is taken
FairSpec == Spec /\ WF_vars(Next)

(***************************************************************************)
(* is_valid_url on its own: a candidate URL built from a scheme, an        *)
(* authority and a rest, checked against an allowed authority.             *)
(***************************************************************************)
CandSchemes == {<<>>, HTTP, HTTPS, <<"H","T","T","P">>, FTP,
                <<"m","a","i","l","t","o">>}
CandAuths == {<<>>, <<"a">>, <<"A">>, <<"a",":","8">>, <<"s",".","a">>, <<"b">>,
              <<"a",".","j","s">>}
AllowedAuths == {<<"a">>, <<"b">>, <<"a",":","8">>, <<"a",".","j","s">>}

\* rests that are plain pages
PlainRests == {<<>>, <<"/">>, <<"/","p">>, <<"/","p","?","x">>}

\* rests with a file extension in the path, in the query, or in neither
ExtensionRests == {
    <<"/","x",".","p","d","f">>, <<"/","x",".","d","o","c">>,
    <<"/","x",".","d","o","c","x">>, <<"/","x",".","x","l","s">>,
    <<"/","x",".","x","l","s","x">>, <<"/","x",".","p","p","t">>,
    <<"/","x",".","p","p","t","x">>, <<"/","x",".","z","i","p">>,
    <<"/","x",".","r","a","r">>, <<"/","x",".","t","a","r">>,
    <<"/","x",".","g","z">>, <<"/","x",".","e","x","e">>,
    <<"/","x",".","d","m","g">>, <<"/","x",".","j","p","g">>,
    <<"/","x",".","j","p","e","g">>, <<"/","x",".","p","n","g">>,
    <<"/","x",".","g","i","f">>, <<"/","x",".","s","v","g">>,
    <<"/","x",".","i","c","o">>, <<"/","x",".","m","p","3">>,
    <<"/","x",".","m","p","4">>, <<"/","x",".","a","v","i">>,
    <<"/","x",".","m","o","v">>, <<"/","x",".","w","m","v">>,
    <<"/","x",".","c","s","s">>, <<"/","x",".","j","s">>,
    <<"/","x",".","x","m","l">>, <<"/","x",".","r","s","s">>,
    <<"/","x",".","P","D","F">>, <<"/","x",".","p","d","f","?","v">>,
    <<"/","p","?","f","=","x",".","p","d","f">>,
    <<"/","x",".","h","t","m","l">>, <<"/","x",".","j","s","x">>,
    <<"/","x",".","p","d","f","/">>}

\* rests with and without one of the texts of skip_patterns
PatternRests == {
    <<"/","w","p","-","a","d","m","i","n","/">>,
    <<"/","a","d","m","i","n","/","x">>,
    <<"/","y","/","l","o","g","i","n","/">>,
    <<"/","l","o","g","o","u","t","/">>,
    <<"/","w","p","-","c","o","n","t","e","n","t","/","z">>,
    <<"/","w","p","-","i","n","c","l","u","d","e","s","/">>,
    <<"/","m","a","i","l","t","o",":","m">>, <<"/","t","e","l",":","1">>,
    <<"/","p","?","u","=","f","t","p",":","x">>,
    <<"/","f","i","l","e",":">>, <<"/","p","#","f">>, <<"#">>,
    <<"/","j","a","v","a","s","c","r","i","p","t",":","v">>,
    <<"/","A","D","M","I","N","/">>, <<"/","a","d","m","i","n">>,
    <<"/","p","?","q","=","/","L","o","g","i","n","/">>}

CandRests == PlainRests \cup ExtensionRests \cup PatternRests

\* the text of a URL with the given parts (<<>>: the part is absent)
BuildURL(scheme, auth, rest) ==
    (IF scheme = <<>> THEN <<>> ELSE scheme \o <<":">>)
    \o (IF auth = <<>> THEN <<>> ELSE <<"/", "/">> \o auth)
    \o rest

ScopeInit ==
    /\ cand_scheme \in CandSchemes
    /\ cand_auth \in CandAuths
    /\ cand_rest \in CandRests
    /\ allowed \in AllowedAuths
    /\ verdict = <<>>
    /\ AnalyzerIdle
    /\ DetectorIdle
    /\ entry = "none"
    /\ arg_url = <<>>
    /\ arg_max_pages = 0
    /\ pc = "idle"
    /\ base_url = <<>>
    /\ max_pages = 0
    /\ domain = <<>>
    /\ visited_urls = {}
    /\ pages_to_crawl = <<>>
    /\ crawled_pages = <<>>
    /\ calls = 0
    /\ pages_data = <<>>
    /\ trace = <<>>
    /\ result = "none"
    /\ failed = <<>>
    /\ depth = {}

\* how often the same call is made
MaxChecks == 2

\* the candidate of the current state
Candidate == BuildURL(cand_scheme, cand_auth, cand_rest)

\* the call is_valid_url(candidate, allowed)
ScopeCheck ==
    /\ pc = "idle"
    /\ Len(verdict) < MaxChecks
    /\ verdict' = Append(verdict, is_valid_url(Candidate, allowed))
    /\ UNCHANGED <<cand_scheme, cand_auth, cand_rest, allowed, analyzer_vars,
                   detector_vars, input_vars, crawler_vars, pipeline_vars, pc,
                   pages_to_crawl, crawled_pages, calls, failed, depth>>

\* crawl_site, lines 45-51, for one link: the candidate is the href, found
\* on the page http://<allowed>/ by a crawler whose domain is allowed
ScopeLink ==
    /\ pc = "idle"
    /\ \E current_url \in {HTTP_PREFIX \o allowed \o <<"/">>} :
       \E full_url \in {urljoin(current_url, Candidate)} :
           pages_to_crawl' =
               IF /\ is_valid_url(full_url, allowed)
                  /\ full_url \notin visited_urls \cup {current_url}
                  /\ full_url \notin Range(pages_to_crawl)
               THEN Append(pages_to_crawl, full_url)
               ELSE pages_to_crawl
    /\ pc' = "linked"
    /\ UNCHANGED <<pure_vars, input_vars, crawler_vars, pipeline_vars,
                   crawled_pages, calls, failed, depth>>

ScopeNext == ScopeCheck \/ ScopeLink

ScopeSpec == ScopeInit /\ [][ScopeNext]_vars


(***************************************************************************)
(* analyze_page on its own: a document is analysed under a URL, and        *)
(* analysed again as it is or after the text of one of its script or style *)
(* elements has been edited.                                               *)
(***************************************************************************)
\* no crawl and no pipeline under way
CrawlIdle ==
    /\ entry = "none"
    /\ arg_url = <<>>
    /\ arg_max_pages = 0
    /\ pc = "idle"
    /\ base_url = <<>>
    /\ max_pages = 0
    /\ domain = <<>>
    /\ visited_urls = {}
    /\ pages_to_crawl = <<>>
    /\ crawled_pages = <<>>
    /\ calls = 0
    /\ pages_data = <<>>
    /\ trace = <<>>
    /\ result = "none"
    /\ failed = <<>>
    /\ depth = {}

AnalyzerInit ==
    /\ page_url \in DocumentURLs
    /\ markup \in Documents
    /\ analysis = <<>>
    /\ ScopeIdle
    /\ DetectorIdle
    /\ CrawlIdle

\* how often the document is analysed
MaxAnalyses == 2

\* PageAnalyzer(urlparse(page_url).netloc).analyze_page(page_url, markup)
AnalyzePage ==
    /\ page_url # <<>>
    /\ Len(analysis) < MaxAnalyses
    /\ analysis' = Append(analysis,
           analyze_page(ParseTable[page_url].netloc, page_url, markup))
    /\ pc' = "analysed"
    /\ UNCHANGED <<page_url, markup, scope_vars, detector_vars, input_vars,
                   crawler_vars, pipeline_vars, pages_to_crawl, crawled_pages,
                   calls, failed, depth>>

\* the text inside one script or style element of the markup changes
\* between two analyses
EditScript ==
    /\ pc = "analysed"
    /\ Len(analysis) < MaxAnalyses
    /\ \E i \in DOMAIN markup : \E text \in ScriptTexts :
           /\ markup[i].tag \in {"script", "style"}
           /\ text # markup[i].text
           /\ markup' = [markup EXCEPT ![i].text = text]
    /\ pc' = "edited"
    /\ UNCHANGED <<page_url, analysis, scope_vars, detector_vars, input_vars,
                   crawler_vars, pipeline_vars, pages_to_crawl, crawled_pages,
                   calls, failed, depth>>

AnalyzerNext == AnalyzePage \/ EditScript
AnalyzerSpec == AnalyzerInit /\ [][AnalyzerNext]_vars


(***************************************************************************)
(* analyze_page followed by detect_page_issues, as main() and              *)
(* run_seo_scan() run them on a crawled page.                              *)
(***************************************************************************)
PageInit ==
    /\ page_url \in DocumentURLs
    /\ markup \in Documents \cup {ScenarioAPage, EmptyDescriptionPage}
    /\ analysis = <<>>
    /\ ScopeIdle
    /\ DetectorIdle
    /\ CrawlIdle

\* detect_page_issues on the record analyze_page has just returned
DetectAnalysed ==
    /\ pc = "analysed"
    /\ Len(detected) < Len(analysis)
    /\ page' = analysis[Len(analysis)]
    /\ detected' = Append(detected, detect_page_issues(analysis[Len(analysis)]))
    /\ pc' = "detected"
    /\ UNCHANGED <<scope_vars, analyzer_vars, input_vars, crawler_vars,
                   pipeline_vars, pages_to_crawl, crawled_pages, calls,
                   failed, depth>>

PageNext == AnalyzePage \/ DetectAnalysed
PageSpec == PageInit /\ [][PageNext]_vars


(***************************************************************************)
(* detect_page_issues on its own: a page record is drawn, with every field *)
(* at, below and above the thresholds of the rule that reads it, and the   *)
(* detector is run on it.                                                  *)
(***************************************************************************)
TextOfLength(n) == [i \in 1..n |-> "t"]

\* title and title_length: the length of the title, and two records whose
\* title_length is not the length of the title
TitleCases ==
    {[title |-> TextOfLength(n), title_length |-> n] : n \in {0, 1, 29, 30, 60, 61}}
    \cup {[title |-> <<>>, title_length |-> 45],
          [title |-> TextOfLength(45), title_length |-> 0]}

MetaCases ==
    {[has_meta_description |-> FALSE, meta_desc_length |-> 0],
     [has_meta_description |-> FALSE, meta_desc_length |-> 161],
     [has_meta_description |-> TRUE, meta_desc_length |-> 0]}
    \cup {[has_meta_description |-> TRUE, meta_desc_length |-> n] :
             n \in {1, 119, 120, 160, 161}}

HeaderCases ==
    {[h1_count |-> 0, h2_count |-> 0, total_headings |-> 0],
     [h1_count |-> 0, h2_count |-> 2, total_headings |-> 2],
     [h1_count |-> 1, h2_count |-> 0, total_headings |-> 1],
     [h1_count |-> 2, h2_count |-> 0, total_headings |-> 2],
     [h1_count |-> 1, h2_count |-> 0, total_headings |-> 0],
     [h1_count |-> 12, h2_count |-> 0, total_headings |-> 0]}

ImageCases ==
    {[total_images |-> 0, images_without_alt |-> 0],
     [total_images |-> 3, images_without_alt |-> 0],
     [total_images |-> 3, images_without_alt |-> 2],
     [total_images |-> 3, images_without_alt |-> 3]}

ContentCases == {[word_count |-> n] : n \in {0, 149, 150, 299, 300}}

TechnicalCases ==
    {[has_viewport_meta |-> viewport, lang_attribute |-> lang,
      canonical_url |-> canonical] :
        viewport \in BOOLEAN, lang \in {<<>>, Txt_en},
        canonical \in {<<>>, Txt_http_a}}

PageRecords ==
    {[url |-> Txt_http_a] @@ title @@ meta @@ headers @@ images @@ content
        @@ technical :
        title \in TitleCases, meta \in MetaCases, headers \in HeaderCases,
        images \in ImageCases, content \in ContentCases,
        technical \in TechnicalCases}

DetectInit ==
    /\ page \in PageRecords
    /\ detected = <<>>
    /\ ScopeIdle
    /\ AnalyzerIdle
    /\ CrawlIdle

\* how often the detector is run on the record
MaxDetections == 2

\* IssueDetector.detect_page_issues(page)
DetectPage ==
    /\ page # <<>>
    /\ Len(detected) < MaxDetections
    /\ detected' = Append(detected, detect_page_issues(page))
    /\ UNCHANGED <<page, scope_vars, analyzer_vars, input_vars, crawler_vars,
                   pipeline_vars, pc, pages_to_crawl, crawled_pages, calls,
                   failed, depth>>

DetectNext == DetectPage
DetectSpec == DetectInit /\ [][DetectNext]_vars


(***************************************************************************)
(* detect_all_issues on its own: a list of page records is drawn and the   *)
(* detector is run on it, more than once.                                  *)
(***************************************************************************)
\* a page with every issue, a page with one issue of every category but
\* Images, and a page without issues, under three URLs
SampleRecords ==
    {[url |-> Txt_http_a, title |-> <<>>, title_length |-> 0,
      has_meta_description |-> FALSE, meta_desc_length |-> 0,
      h1_count |-> 0, h2_count |-> 0, total_headings |-> 0,
      total_images |-> 3, images_without_alt |-> 3, word_count |-> 100,
      has_viewport_meta |-> FALSE, lang_attribute |-> <<>>,
      canonical_url |-> <<>>],
     [url |-> Txt_p, title |-> TextOfLength(61), title_length |-> 61,
      has_meta_description |-> TRUE, meta_desc_length |-> 119,
      h1_count |-> 2, h2_count |-> 1, total_headings |-> 3,
      total_images |-> 0, images_without_alt |-> 0, word_count |-> 150,
      has_viewport_meta |-> TRUE, lang_attribute |-> Txt_en,
      canonical_url |-> <<>>],
     [url |-> Txt_q, title |-> TextOfLength(30), title_length |-> 30,
      has_meta_description |-> TRUE, meta_desc_length |-> 120,
      h1_count |-> 1, h2_count |-> 0, total_headings |-> 1,
      total_images |-> 3, images_without_alt |-> 0, word_count |-> 300,
      has_viewport_meta |-> TRUE, lang_attribute |-> Txt_en,
      canonical_url |-> Txt_q]}

\* how many records the list holds at most
MaxRecords == 3

DetectAllInit ==
    /\ pages_data \in UNION {[1..n -> SampleRecords] : n \in 0..MaxRecords}
    /\ detected = <<>>
    /\ page = <<>>
    /\ ScopeIdle
    /\ AnalyzerIdle
    /\ entry = "none"
    /\ arg_url = <<>>
    /\ arg_max_pages = 0
    /\ pc = "idle"
    /\ base_url = <<>>
    /\ max_pages = 0
    /\ domain = <<>>
    /\ visited_urls = {}
    /\ pages_to_crawl = <<>>
    /\ crawled_pages = <<>>
    /\ calls = 0
    /\ trace = <<>>
    /\ result = "none"
    /\ failed = <<>>
    /\ depth = {}

\* IssueDetector.detect_all_issues(pages_data)
DetectAll ==
    /\ pc = "idle"
    /\ Len(detected) < MaxDetections
    /\ detected' = Append(detected, detect_all_issues(pages_data))
    /\ UNCHANGED <<page, scope_vars, analyzer_vars, input_vars, crawler_vars,
                   pipeline_vars, pc, pages_to_crawl, crawled_pages, calls,
                   failed, depth>>

DetectAllNext == DetectAll
DetectAllSpec == DetectAllInit /\ [][DetectAllNext]_vars


(***************************************************************************)
(* Properties of the crawler                                               *)
(***************************************************************************)
\* the URLs of the pages returned so far, in order
OutputURLs == [i \in DOMAIN crawled_pages |-> crawled_pages[i][1]]

\* C1: in every state of crawl_site, the visited set and the result hold at
\* most max_pages entries, whatever the links and the fetch outcomes are.
C1_BudgetBound ==
    /\ Cardinality(visited_urls) <= max_pages
    /\ Len(crawled_pages) <= max_pages

\* the budget is used up while links are still waiting, after a failed fetch
C1_Witness ==
    /\ pc = "returned"
    /\ calls = 1
    /\ max_pages >= 2
    /\ Len(crawled_pages) = max_pages
    /\ pages_to_crawl # <<>>
    /\ failed # <<>>

\* C2: when the seed has an authority, every URL fetched, returned or put on
\* the frontier has exactly that authority.
C2_SameAuthority ==
    (base_url # <<>> /\ ParseTable[base_url].netloc # <<>>) =>
        \A u \in Range(OutputURLs) \cup Range(pages_to_crawl) \cup Range(failed)
                 \cup visited_urls :
            ParseTable[u].netloc = ParseTable[base_url].netloc

\* a page that links to other authorities was fetched and the crawl went on
\* over the links it gave
C2_Witness ==
    /\ pc = "returned"
    /\ Len(crawled_pages) >= 3
    /\ crawled_pages[1][2] = ScenarioCBody
    /\ ParseTable[base_url].netloc = <<"a">>

\* C3: no URL occurs twice in the sequence crawl_site returns.
C3_NoDuplicates ==
    \A i, j \in DOMAIN crawled_pages :
        crawled_pages[i][1] = crawled_pages[j][1] => i = j

\* three pages were returned, the first of which links to itself and twice
\* to the same page
C3_Witness ==
    /\ pc = "returned"
    /\ Len(crawled_pages) >= 3
    /\ crawled_pages[1][2] = MixedBody
    /\ crawled_pages[2][2] = BackBody

\* C4: of two returned pages first discovered at link depths d and d+1, the
\* one of depth d comes first in the result, whatever the fetch outcomes are.
C4_BreadthFirst ==
    \A i, j \in DOMAIN crawled_pages :
        DepthOf(depth, crawled_pages[i][1]) + 1 = DepthOf(depth, crawled_pages[j][1])
            => i < j

\* C5: crawl_site always returns; each iteration of its loop either removes
\* the head of the frontier and adds nothing, or returns one more page.
C5_Terminates ==
    /\ [][(pc = "crawl" /\ pc' = "crawl") =>
            \/ /\ pages_to_crawl' = Tail(pages_to_crawl)
               /\ crawled_pages' = crawled_pages
            \/ Len(crawled_pages') = Len(crawled_pages) + 1]_vars
    /\ (pc = "crawl") ~> (pc = "returned")

\* a call has returned after failed fetches and successful ones
C5_Witness ==
    /\ pc = "returned"
    /\ Len(failed) >= 2
    /\ Len(crawled_pages) >= 2
    /\ pages_to_crawl = <<>>

\* C6: a failed fetch leaves the result and the visited set as they were,
\* enqueues nothing, and the loop goes on with the rest of the frontier.
C6_FailureSkipped ==
    [][Len(failed') = Len(failed) + 1 =>
          /\ crawled_pages' = crawled_pages
          /\ visited_urls' = visited_urls
          /\ Head(pages_to_crawl) \notin visited_urls'
          /\ Head(pages_to_crawl) \notin Range(OutputURLs')
          /\ pages_to_crawl' = Tail(pages_to_crawl)
          /\ pc' = "crawl"
          /\ Len(crawled_pages') < max_pages']_vars

\* the first link of the seed page failed, and the second one, popped after
\* it, was fetched
C6_Witness ==
    /\ base_url = Txt_http_a
    /\ Len(crawled_pages) = 2
    /\ crawled_pages[1][2] = MixedBody
    /\ failed = <<Txt_q>>
    /\ crawled_pages[2][1] = Txt_https_p

\* C7: when the fetch of the seed fails, crawl_site returns the empty
\* sequence for every max_pages, and the pipeline reports that and ends
\* without analysing a page or detecting an issue.
C7_SeedFailure ==
    (pc \in {"returned", "done"} /\ base_url \in Range(failed)) =>
        /\ crawled_pages = <<>>
        /\ visited_urls = {}
        /\ pc = "done" =>
              /\ result = "no_pages"
              /\ pages_data = <<>>
              /\ trace = <<>>

\* a pipeline run with a budget above one has ended on a failed seed
C7_Witness ==
    /\ pc = "done"
    /\ entry = "app"
    /\ max_pages >= 2
    /\ failed = <<base_url>>
    /\ result = "no_pages"

\* C8: a seed page with five links of its authority and two of others,
\* max_pages 3 and no failure: the result is the seed and the first two
\* links of its authority in page order, and the others are never enqueued.
C8_ScenarioC ==
    (/\ crawled_pages # <<>>
     /\ crawled_pages[1][2] = ScenarioCBody
     /\ max_pages = 3
     /\ failed = <<>>) =>
        /\ Txt_b \notin Range(pages_to_crawl)
        /\ Txt_sub \notin Range(pages_to_crawl)
        /\ pc \in {"returned", "done"} =>
              OutputURLs = <<base_url, Txt_p, base_url \o <<"q">> >>

\* the scenario has run to its end
C8_Witness ==
    /\ pc = "returned"
    /\ base_url = Txt_http_a
    /\ max_pages = 3
    /\ failed = <<>>
    /\ Len(crawled_pages) = 3
    /\ crawled_pages[1][2] = ScenarioCBody

\* the inputs of a pipeline run whose URL has no authority: "http://" for
\* both, and "a/" for run_seo_scan, which adds no scheme
NoAuthorityInput ==
    \/ arg_url = Txt_http_none
    \/ entry = "app" /\ arg_url = Txt_bare_a

\* C9: a pipeline run on a URL without authority is refused at once: no
\* crawl, no fetch, nothing visited, no page analysed.
C9_InvalidSeedRejected ==
    (entry \in {"main", "app"} /\ NoAuthorityInput /\ pc # "start") =>
        /\ pc = "done"
        /\ result = "invalid_url"
        /\ calls = 0
        /\ failed = <<>>
        /\ visited_urls = {}
        /\ crawled_pages = <<>>
        /\ pages_to_crawl = <<>>
        /\ pages_data = <<>>
        /\ trace = <<>>

\* main has refused "http://"
C9_Witness ==
    /\ entry = "main"
    /\ arg_url = Txt_http_none
    /\ pc = "done"
    /\ result = "invalid_url"

(***************************************************************************)
(* Properties of is_valid_url                                              *)
(***************************************************************************)
\* the candidate is out of scope by its parts: no scheme, no authority, a
\* scheme other than http and https, or an authority that is not the
\* allowed one character for character
OutOfScope ==
    \/ cand_scheme = <<>>
    \/ cand_auth = <<>>
    \/ Lower(cand_scheme) \notin {HTTP, HTTPS}
    \/ cand_auth # allowed

\* C10: is_valid_url returns False for a candidate without scheme or
\* authority, with a scheme other than http and https, or with an authority
\* that differs from the allowed one (a subdomain, a port, another case);
\* the call changes nothing and repeated calls return the same value.
C10_OutOfScopeRejected ==
    /\ [](OutOfScope => \A i \in DOMAIN verdict : verdict[i] = FALSE)
    /\ [](\A i, j \in DOMAIN verdict : verdict[i] = verdict[j])
    /\ [][verdict' # verdict =>
            UNCHANGED <<cand_scheme, cand_auth, cand_rest, allowed, input_vars,
                        crawler_vars, pipeline_vars, pc, pages_to_crawl,
                        crawled_pages, calls, failed, depth>>]_vars

\* a URL of a subdomain of the allowed authority was refused twice
C10_Witness ==
    /\ cand_scheme = HTTP
    /\ cand_auth = <<"s", ".", "a">>
    /\ cand_rest = <<"/", "p">>
    /\ allowed = <<"a">>
    /\ verdict = <<FALSE, FALSE>>

\* the extensions the documentation lists as those of non-pages
ListedExtensions == {
    <<".","p","d","f">>, <<".","d","o","c">>, <<".","d","o","c","x">>,
    <<".","x","l","s">>, <<".","x","l","s","x">>, <<".","p","p","t">>,
    <<".","p","p","t","x">>, <<".","z","i","p">>, <<".","r","a","r">>,
    <<".","t","a","r">>, <<".","g","z">>, <<".","e","x","e">>,
    <<".","d","m","g">>, <<".","j","p","g">>, <<".","j","p","e","g">>,
    <<".","p","n","g">>, <<".","g","i","f">>, <<".","s","v","g">>,
    <<".","i","c","o">>, <<".","m","p","3">>, <<".","m","p","4">>,
    <<".","a","v","i">>, <<".","m","o","v">>, <<".","w","m","v">>,
    <<".","c","s","s">>, <<".","j","s">>, <<".","x","m","l">>,
    <<".","r","s","s">>}

\* the texts the documentation lists as those of non-page URLs
ForbiddenTexts == {
    <<"/","w","p","-","a","d","m","i","n","/">>,
    <<"/","a","d","m","i","n","/">>, <<"/","l","o","g","i","n","/">>,
    <<"/","l","o","g","o","u","t","/">>,
    <<"/","w","p","-","c","o","n","t","e","n","t","/">>,
    <<"/","w","p","-","i","n","c","l","u","d","e","s","/">>,
    <<"m","a","i","l","t","o",":">>, <<"t","e","l",":">>,
    <<"f","t","p",":">>, <<"f","i","l","e",":">>, <<"#">>,
    <<"j","a","v","a","s","c","r","i","p","t",":">>}

\* the candidate holds one of the forbidden texts, in any case
HasForbidden ==
    \E text \in ForbiddenTexts : Contains(Lower(Candidate), text)

\* the candidate is an http(s) URL of the allowed authority without any
\* forbidden text
InScopeClean == ~OutOfScope /\ ~HasForbidden

\* the path of the candidate: its rest up to the query or the fragment
CandPath ==
    With(FindAny(cand_rest, {"?", "#"}, 1), LAMBDA i :
        IF i = 0 THEN cand_rest ELSE Slice(cand_rest, 1, i - 1))

\* C11: an http(s) URL of the allowed authority without forbidden text is
\* refused if and only if its path ends, in any case, with a listed
\* extension; a query after the path, or an extension only in the query or
\* the host, makes no difference.
C11_PathExtension ==
    InScopeClean =>
        \A i \in DOMAIN verdict :
            verdict[i] = FALSE <=>
                \E ext \in ListedExtensions : EndsWith(Lower(CandPath), ext)

\* C12: is_valid_url returns False for every URL that holds a forbidden text
\* at any position and in any case, and the link step of the crawler never
\* enqueues a URL with a fragment.
C12_ForbiddenRejected ==
    /\ HasForbidden => \A i \in DOMAIN verdict : verdict[i] = FALSE
    /\ \A u \in Range(pages_to_crawl) : "#" \notin Range(u)

\* a page URL of the allowed authority with a fragment was refused by the
\* function and passed over by the link step
C12_Witness ==
    /\ cand_scheme = HTTP
    /\ cand_auth = <<"a">>
    /\ allowed = <<"a">>
    /\ cand_rest = <<"/", "p", "#", "f">>
    /\ verdict = <<FALSE, FALSE>>
    /\ pc = "linked"
    /\ pages_to_crawl = <<>>


(***************************************************************************)
(* Properties of the page analyzer                                         *)
(***************************************************************************)
\* C13: in every record analyze_page returns, images_without_alt is at most
\* total_images, internal_links + external_links is at most total_links,
\* and total_headings is h1_count + h2_count + h3_count.
C13_CountBounds ==
    \A i \in DOMAIN analysis :
        /\ analysis[i].images_without_alt <= analysis[i].total_images
        /\ analysis[i].internal_links + analysis[i].external_links
               <= analysis[i].total_links
        /\ analysis[i].total_headings =
               analysis[i].h1_count + analysis[i].h2_count + analysis[i].h3_count

\* a page with four images, three of them without alt text, two links that
\* are neither internal nor external, and five headings
C13_Witness ==
    \E i \in DOMAIN analysis :
        /\ analysis[i].total_images = 4
        /\ analysis[i].images_without_alt = 3
        /\ analysis[i].total_links = 2
        /\ analysis[i].internal_links + analysis[i].external_links = 0
        /\ analysis[i].h1_count = 2
        /\ analysis[i].h3_count = 2
        /\ analysis[i].total_headings = 5

\* C14: schema_markup of a record is True exactly when the markup analysed
\* holds a script element of type application/ld+json, although the word
\* count, which removes the script and style elements, runs before the
\* technical elements are read.
C14_SchemaMarkup ==
    \A i \in DOMAIN analysis :
        analysis[i].schema_markup <=>
            \E k \in DOMAIN markup :
                /\ markup[k].tag = "script"
                /\ HasAttr(markup[k], "type")
                /\ markup[k].attrs.type = LD_JSON

\* the anchors of the markup that carry an href, those of them whose href
\* begins with '#' or 'javascript:', and those of the rest whose href begins
\* with 'http'
LinkAnchors ==
    {k \in DOMAIN markup : markup[k].tag = "a" /\ "href" \in DOMAIN markup[k].attrs}
PassedAnchors ==
    {k \in LinkAnchors : \/ StartsWith(markup[k].attrs.href, <<"#">>)
                         \/ StartsWith(markup[k].attrs.href, JAVASCRIPT)}
AbsoluteAnchors ==
    {k \in LinkAnchors \ PassedAnchors : StartsWith(markup[k].attrs.href, HTTP)}
SameAuthorityAnchors ==
    {k \in AbsoluteAnchors :
        ParseTable[markup[k].attrs.href].netloc = ParseTable[page_url].netloc}

\* C15: every anchor with an href is counted in total_links; one whose href
\* begins with '#' or 'javascript:' is neither internal nor external, one
\* whose href begins with 'http' is internal when its authority is the
\* page URL's and external otherwise, and every other one (relative,
\* mailto:, tel:, protocol-relative) is internal.
C15_LinksClassified ==
    \A i \in DOMAIN analysis :
        /\ analysis[i].total_links = Cardinality(LinkAnchors)
        /\ analysis[i].internal_links =
               Cardinality(SameAuthorityAnchors)
               + Cardinality((LinkAnchors \ PassedAnchors) \ AbsoluteAnchors)
        /\ analysis[i].external_links =
               Cardinality(AbsoluteAnchors \ SameAuthorityAnchors)

\* a page of http://a/ with a mailto:, a tel:, a protocol-relative, a
\* relative and an empty href, all five internal
C15_Witness ==
    /\ page_url = Txt_http_a
    /\ \E k \in LinkAnchors : markup[k].attrs.href = Txt_mailto
    /\ \E k \in LinkAnchors : markup[k].attrs.href = Txt_proto_rel
    /\ \E i \in DOMAIN analysis :
           /\ analysis[i].total_links = 5
           /\ analysis[i].internal_links = 5
           /\ analysis[i].external_links = 0

\* the text of the markup outside its script and style elements, and the
\* number of places in it where a run of word characters ends
VisibleText ==
    GetText(SelectSeq(markup, LAMBDA e : e.tag # "script" /\ e.tag # "style"))
VisibleTokens ==
    With(VisibleText, LAMBDA text :
        Cardinality({k \in DOMAIN text :
            /\ text[k] \in WordChars
            /\ k = Len(text) \/ text[k + 1] \notin WordChars}))

\* C16: word_count is the number of word tokens of the document text
\* outside every script and style element, so that a change of the text
\* inside such an element leaves the word_count of the next record as it
\* was.
C16_WordCount ==
    /\ With(VisibleTokens, LAMBDA tokens :
           \A i \in DOMAIN analysis : analysis[i].word_count = tokens)
    /\ \A i, j \in DOMAIN analysis : analysis[i].word_count = analysis[j].word_count

\* a page of seven words is analysed, the text of a script of it is changed
\* to two words, and the page is analysed again
C16_Witness ==
    /\ Len(analysis) = 2
    /\ \E k \in DOMAIN markup :
           markup[k].tag = "script" /\ markup[k].text = Txt_words
    /\ analysis[1].word_count = 7
    /\ analysis[2].word_count = 7


(***************************************************************************)
(* Properties of the issue detector                                        *)
(***************************************************************************)
\* the issues of one category in a list of issues, in order
OfCategory(issues, category) ==
    SelectSeq(issues, LAMBDA x : x.category = category)

\* one issue of the given type and text and no other
Only(issues, type, text) ==
    /\ Len(issues) = 1
    /\ issues[1].type = type
    /\ issues[1].issue = text

\* C17: for a record whose title_length is the length of its title, the
\* detector emits exactly one Title issue when the title is empty (CRITICAL,
\* missing), shorter than 30 (WARNING, too short) or longer than 60
\* (WARNING, too long), and none for a length from 30 to 60.
C17_TitleRule ==
    page # <<>> /\ page.title_length = Len(page.title) =>
        \A i \in DOMAIN detected :
            With(OfCategory(detected[i], "Title"), LAMBDA found :
                /\ page.title = <<>> =>
                       Only(found, "CRITICAL", "Missing title tag")
                /\ 0 < page.title_length /\ page.title_length < 30 =>
                       Only(found, "WARNING",
                            "Title too short (" \o Str(page.title_length) \o " characters)")
                /\ page.title_length > 60 =>
                       Only(found, "WARNING",
                            "Title too long (" \o Str(page.title_length) \o " characters)")
                /\ 30 <= page.title_length /\ page.title_length <= 60 =>
                       found = <<>>
                /\ page.title_length = 29 =>
                       found[1].issue = "Title too short (29 characters)"
                /\ page.title_length = 61 =>
                       found[1].issue = "Title too long (61 characters)")

\* a title of 30 characters has passed the detector without a Title issue
C17_Witness ==
    /\ page # <<>>
    /\ Len(page.title) = 30
    /\ page.title_length = 30
    /\ Len(detected) = 2
    /\ OfCategory(detected[2], "Title") = <<>>

\* C18: the detector emits exactly one Meta Description issue when the
\* record has no description (CRITICAL, missing), has one shorter than 120
\* and longer than 0 (WARNING, too short) or has one longer than 160
\* (WARNING, too long), and none when it has one of a length from 120 to
\* 160.
C18_MetaDescriptionRule ==
    page # <<>> =>
        \A i \in DOMAIN detected :
            With(OfCategory(detected[i], "Meta Description"), LAMBDA found :
                /\ ~page.has_meta_description =>
                       Only(found, "CRITICAL", "Missing meta description")
                /\ /\ page.has_meta_description
                   /\ 0 < page.meta_desc_length
                   /\ page.meta_desc_length < 120
                   => Only(found, "WARNING",
                           "Meta description too short ("
                               \o Str(page.meta_desc_length) \o " characters)")
                /\ page.has_meta_description /\ page.meta_desc_length > 160 =>
                       Only(found, "WARNING",
                            "Meta description too long ("
                                \o Str(page.meta_desc_length) \o " characters)")
                /\ /\ page.has_meta_description
                   /\ 120 <= page.meta_desc_length
                   /\ page.meta_desc_length <= 160
                   => found = <<>>
                /\ page.has_meta_description /\ page.meta_desc_length = 119 =>
                       found[1].issue = "Meta description too short (119 characters)"
                /\ page.has_meta_description /\ page.meta_desc_length = 161 =>
                       found[1].issue = "Meta description too long (161 characters)")

\* a description of 160 characters has passed the detector without a Meta
\* Description issue
C18_Witness ==
    /\ page # <<>>
    /\ page.has_meta_description
    /\ page.meta_desc_length = 160
    /\ Len(detected) = 2
    /\ OfCategory(detected[1], "Meta Description") = <<>>

\* an issue of the given type and text is among the issues
Among(issues, type, text) ==
    \E k \in DOMAIN issues : issues[k].type = type /\ issues[k].issue = text

\* C19: among the Headers issues there is CRITICAL 'Missing H1 tag' exactly
\* when h1_count is 0, WARNING 'Multiple H1 tags (N found)' with N the
\* h1_count exactly when h1_count exceeds 1, no issue about the H1 exactly
\* when h1_count is 1, and WARNING 'No header tags found' exactly when
\* total_headings is 0, whatever the h1_count; a page without any heading
\* gets the missing H1 issue and the no header tags issue, in this order.
C19_HeadersRule ==
    page # <<>> =>
        \A i \in DOMAIN detected :
            With(OfCategory(detected[i], "Headers"), LAMBDA found :
                /\ Among(found, "CRITICAL", "Missing H1 tag") <=> page.h1_count = 0
                /\ Among(found, "WARNING",
                         "Multiple H1 tags (" \o Str(page.h1_count) \o " found)")
                       <=> page.h1_count > 1
                /\ (\A k \in DOMAIN found : found[k].issue = "No header tags found")
                       <=> page.h1_count = 1
                /\ Among(found, "WARNING", "No header tags found")
                       <=> page.total_headings = 0
                /\ Len(found) =
                       (IF page.h1_count = 1 THEN 0 ELSE 1)
                       + (IF page.total_headings = 0 THEN 1 ELSE 0)
                /\ page.h1_count = 0 /\ page.total_headings = 0 =>
                       /\ found[1].issue = "Missing H1 tag"
                       /\ found[2].issue = "No header tags found"
                /\ page.h1_count = 12 =>
                       found[1].issue = "Multiple H1 tags (12 found)")

\* a record without any heading has got the two Headers issues
C19_Witness ==
    /\ page # <<>>
    /\ page.h1_count = 0
    /\ page.total_headings = 0
    /\ Len(detected) = 1
    /\ Len(OfCategory(detected[1], "Headers")) = 2

\* C20: the detector emits exactly one Content issue for a word_count below
\* 300, WARNING 'Low content volume' below 150 (0 included) and INFO
\* 'Moderate content volume' from 150 on, and none for a word_count of 300
\* or more; the text of the issue holds the word_count.
C20_ContentRule ==
    page # <<>> =>
        \A i \in DOMAIN detected :
            With(OfCategory(detected[i], "Content"), LAMBDA found :
                /\ page.word_count < 150 =>
                       Only(found, "WARNING",
                            "Low content volume (" \o Str(page.word_count) \o " words)")
                /\ 150 <= page.word_count /\ page.word_count < 300 =>
                       Only(found, "INFO",
                            "Moderate content volume (" \o Str(page.word_count) \o " words)")
                /\ page.word_count >= 300 => found = <<>>
                /\ page.word_count = 0 =>
                       found[1].issue = "Low content volume (0 words)"
                /\ page.word_count = 299 =>
                       found[1].issue = "Moderate content volume (299 words)")

\* a record of 150 words has got the moderate content volume issue
C20_Witness ==
    /\ page # <<>>
    /\ page.word_count = 150
    /\ Len(detected) = 1
    /\ Only(OfCategory(detected[1], "Content"), "INFO",
            "Moderate content volume (150 words)")

\* C21: the detector emits one Images issue, WARNING 'N of M images missing
\* alt text' with N the images_without_alt and M the total_images, exactly
\* when both counts are above 0; a record of no images, or of images that
\* all have an alt text, gets no Images issue.
C21_ImagesRule ==
    page # <<>> =>
        \A i \in DOMAIN detected :
            With(OfCategory(detected[i], "Images"), LAMBDA found :
                /\ found # <<>> <=>
                       page.total_images > 0 /\ page.images_without_alt > 0
                /\ found # <<>> =>
                       Only(found, "WARNING",
                            Str(page.images_without_alt) \o " of "
                                \o Str(page.total_images)
                                \o " images missing alt text")
                /\ page.total_images = 0 \/ page.images_without_alt = 0 =>
                       found = <<>>
                /\ page.total_images = 3 /\ page.images_without_alt = 2 =>
                       found[1].issue = "2 of 3 images missing alt text")

\* a record of three images, two of them without alt text, has got the
\* Images issue
C21_Witness ==
    /\ page # <<>>
    /\ page.total_images = 3
    /\ page.images_without_alt = 2
    /\ Len(detected) = 1
    /\ Only(OfCategory(detected[1], "Images"), "WARNING",
            "2 of 3 images missing alt text")

\* the place of a Technical issue in the order of the three rules
TechnicalRank(text) ==
    CASE text = "Missing viewport meta tag" -> 1
      [] text = "Missing language attribute" -> 2
      [] text = "Missing canonical URL" -> 3
      [] OTHER -> 0

\* C22: among the Technical issues there is a WARNING for the viewport
\* exactly when has_viewport_meta is false, a WARNING for the language
\* exactly when lang_attribute is empty and an INFO for the canonical URL
\* exactly when canonical_url is empty, each whatever the other fields of
\* the record are, in this order and with no other Technical issue.
C22_TechnicalRules ==
    page # <<>> =>
        \A i \in DOMAIN detected :
            With(OfCategory(detected[i], "Technical"), LAMBDA found :
                /\ Among(found, "WARNING", "Missing viewport meta tag")
                       <=> ~page.has_viewport_meta
                /\ Among(found, "WARNING", "Missing language attribute")
                       <=> page.lang_attribute = <<>>
                /\ Among(found, "INFO", "Missing canonical URL")
                       <=> page.canonical_url = <<>>
                /\ \A k, l \in DOMAIN found :
                       k < l =>
                           /\ 0 < TechnicalRank(found[k].issue)
                           /\ TechnicalRank(found[k].issue) < TechnicalRank(found[l].issue)
                /\ \A k \in DOMAIN found : TechnicalRank(found[k].issue) > 0
                /\ Len(found) =
                       (IF page.has_viewport_meta THEN 0 ELSE 1)
                       + (IF page.lang_attribute = <<>> THEN 1 ELSE 0)
                       + (IF page.canonical_url = <<>> THEN 1 ELSE 0))

\* a record with a viewport, without language and without canonical URL has
\* got the two Technical issues of the elements it misses
C22_Witness ==
    /\ page # <<>>
    /\ page.has_viewport_meta
    /\ page.lang_attribute = <<>>
    /\ page.canonical_url = <<>>
    /\ Len(detected) = 1
    /\ Len(OfCategory(detected[1], "Technical")) = 2
    /\ OfCategory(detected[1], "Technical")[1].issue = "Missing language attribute"
    /\ OfCategory(detected[1], "Technical")[2].type = "INFO"

\* the number of issues of the first n records of the list
RECURSIVE IssuesBefore(_)
IssuesBefore(n) ==
    IF n = 0 THEN 0
    ELSE IssuesBefore(n - 1) + Len(detect_page_issues(pages_data[n]))

\* the place of a category in the order of the rules
CategoryRank(category) ==
    CASE category = "Title" -> 1
      [] category = "Meta Description" -> 2
      [] category = "Headers" -> 3
      [] category = "Images" -> 4
      [] category = "Content" -> 5
      [] category = "Technical" -> 6
      [] OTHER -> 0

\* C23: what detect_all_issues returns for a list of records is, record by
\* record in the order of the list, what detect_page_issues returns for the
\* record alone; the issues of one page follow the order Title, Meta
\* Description, Headers, Images, Content, Technical; and a later call
\* returns what the first call returned.
C23_AllIssues ==
    \A i \in DOMAIN detected :
        /\ Len(detected[i]) = IssuesBefore(Len(pages_data))
        /\ \A n \in DOMAIN pages_data :
               With(detect_page_issues(pages_data[n]), LAMBDA alone :
                   /\ \A k \in DOMAIN alone :
                          detected[i][IssuesBefore(n - 1) + k] = alone[k]
                   /\ \A k, l \in DOMAIN alone :
                          k < l =>
                              /\ 0 < CategoryRank(alone[k].category)
                              /\ CategoryRank(alone[k].category)
                                     <= CategoryRank(alone[l].category))
        /\ detected[i] = detected[1]

\* the detector has run twice on the page without issues, the page with
\* every issue and the page without issues again: nine issues, all of the
\* second record
C23_Witness ==
    /\ Len(pages_data) = 3
    /\ pages_data[1].url = Txt_q
    /\ pages_data[2].url = Txt_http_a
    /\ pages_data[3].url = Txt_q
    /\ pc = "idle"
    /\ Len(detected) = 2
    /\ Len(detected[2]) = 9
    /\ \A k \in DOMAIN detected[2] : detected[2][k].url = Txt_http_a


(***************************************************************************)
(* Properties of the analyzer and the detector together                    *)
(***************************************************************************)
\* category, type and text of every issue of a list
Triples(issues) ==
    {<<issues[k].category, issues[k].type, issues[k].issue>> : k \in DOMAIN issues}

\* C24: for the page without title, description and headings, with three
\* images without alt text, 100 words of visible text and no viewport,
\* language or canonical link, analyze_page followed by detect_page_issues
\* gives these nine issues and no other.
C24_ScenarioA ==
    markup = ScenarioAPage =>
        \A i \in DOMAIN detected :
            /\ Len(detected[i]) = 9
            /\ Triples(detected[i]) =
                   {<<"Title", "CRITICAL", "Missing title tag">>,
                    <<"Meta Description", "CRITICAL", "Missing meta description">>,
                    <<"Headers", "CRITICAL", "Missing H1 tag">>,
                    <<"Headers", "WARNING", "No header tags found">>,
                    <<"Images", "WARNING", "3 of 3 images missing alt text">>,
                    <<"Content", "WARNING", "Low content volume (100 words)">>,
                    <<"Technical", "WARNING", "Missing viewport meta tag">>,
                    <<"Technical", "WARNING", "Missing language attribute">>,
                    <<"Technical", "INFO", "Missing canonical URL">>}

\* the page has been analysed and its record has passed the detector
C24_Witness ==
    /\ markup = ScenarioAPage
    /\ Len(analysis) = 1
    /\ analysis[1].word_count = 100
    /\ analysis[1].images_without_alt = 3
    /\ page = analysis[1]
    /\ Len(detected) = 1
    /\ Len(detected[1]) = 9


(***************************************************************************)
(* Further properties of the crawler                                       *)
(***************************************************************************)
\* C25: a URL whose fetch has failed in this call of crawl_site is not on
\* the frontier again, is not fetched again and is not among the pages
\* returned, whatever the pages fetched later link to.
C25_FailedAbandoned ==
    /\ \A k \in DOMAIN failed :
           /\ failed[k] \notin Range(pages_to_crawl)
           /\ failed[k] \notin Range(OutputURLs)
    /\ \A k, l \in DOMAIN failed : failed[k] = failed[l] => k = l

\* C26: during the first crawl_site call on an instance no URL is on the
\* frontier twice and no URL of the frontier is in visited_urls, so the URL
\* an iteration pops is outside visited_urls and its fetch is attempted.
C26_FrontierDistinct ==
    calls = 1 /\ pc = "crawl" =>
        /\ \A i, j \in DOMAIN pages_to_crawl :
               pages_to_crawl[i] = pages_to_crawl[j] => i = j
        /\ Range(pages_to_crawl) \cap visited_urls = {}
        /\ LoopGuard(pages_to_crawl, crawled_pages, max_pages) =>
               Head(pages_to_crawl) \notin visited_urls

\* the first call has fetched the page that links to the seed, to itself and
\* twice to /q, and a page that links back, with other URLs still to fetch
C26_Witness ==
    /\ calls = 1
    /\ pc = "crawl"
    /\ Len(crawled_pages) >= 2
    /\ crawled_pages[1][2] = MixedBody
    /\ crawled_pages[2][2] = BackBody
    /\ Len(pages_to_crawl) >= 2

\* C27: every call of crawl_site starts with an empty visited set, and a
\* later call on the same instance in which no fetch fails returns, like the
\* earlier call that fetched the seed, a sequence that begins with the seed.
C27_VisitedPerCall ==
    /\ /\ pc = "crawl"
       /\ pages_to_crawl = <<base_url>>
       /\ crawled_pages = <<>>
       /\ failed = <<>>
       => visited_urls = {}
    /\ /\ pc = "returned"
       /\ calls >= 2
       /\ base_url \in visited_urls
       /\ failed = <<>>
       => /\ crawled_pages # <<>>
          /\ crawled_pages[1][1] = base_url

\* C28: a link to the host of the page under the other scheme (the page is
\* http://<allowed>/, the link is https://<allowed>...) is rejected by
\* is_valid_url against the crawler's domain and is not put on the frontier.
C28_SchemeMismatch ==
    cand_scheme = HTTPS /\ cand_auth = allowed =>
        /\ \A i \in DOMAIN verdict : verdict[i] = FALSE
        /\ pages_to_crawl = <<>>

\* C29: in every state of the first crawl_site call on an instance,
\* visited_urls is the set of the URLs of the pages returned so far, of the
\* same size; a result that is not empty begins with the seed, and when the
\* first fetch of the seed fails the call ends with an empty result.
C29_VisitedIsOutput ==
    calls = 1 =>
        /\ visited_urls = Range(OutputURLs)
        /\ Cardinality(visited_urls) = Len(crawled_pages)
        /\ crawled_pages # <<>> => crawled_pages[1][1] = base_url
        /\ failed # <<>> /\ failed[1] = base_url =>
               /\ crawled_pages = <<>>
               /\ pages_to_crawl = <<>>
               /\ visited_urls = {}

\* the first call has returned three pages or more after a failed fetch
C29_Witness ==
    /\ calls = 1
    /\ pc = "returned"
    /\ Len(crawled_pages) >= 3
    /\ Cardinality(visited_urls) >= 3
    /\ failed # <<>>
    /\ max_pages > Len(crawled_pages)

\* the description tags of the markup, and whether the first of them has no
\* content, an empty one or one of blanks only
DescriptionTags ==
    SelectSeq(markup, LAMBDA e :
        e.tag = "meta" /\ "name" \in DOMAIN e.attrs /\ e.attrs.name = DESCRIPTION)
BlankDescription ==
    /\ DescriptionTags # <<>>
    /\ \/ "content" \notin DOMAIN DescriptionTags[1].attrs
       \/ \A k \in DOMAIN DescriptionTags[1].attrs.content :
              DescriptionTags[1].attrs.content[k] \in WHITESPACE

\* C30: in every record of analyze_page, has_meta_description is true
\* exactly when meta_desc_length is above 0 and exactly when
\* meta_description is not empty, a description tag without content or with
\* an empty or blank content counting as no description, and title_length
\* is 0 exactly when title is empty; so the detector reports no title and
\* no description of such a record as too short with a length of 0.
C30_LengthsAgree ==
    /\ \A i \in DOMAIN analysis :
           /\ analysis[i].has_meta_description <=> analysis[i].meta_desc_length > 0
           /\ analysis[i].has_meta_description <=> analysis[i].meta_description # <<>>
           /\ BlankDescription \/ DescriptionTags = <<>> =>
                  ~analysis[i].has_meta_description
           /\ analysis[i].title_length = 0 <=> analysis[i].title = <<>>
    /\ page # <<>> =>
           \A i \in DOMAIN detected :
               /\ ~Among(detected[i], "WARNING", "Title too short (0 characters)")
               /\ ~Among(detected[i], "WARNING",
                         "Meta description too short (0 characters)")
               /\ Among(detected[i], "WARNING",
                        "Title too short (" \o Str(page.title_length) \o " characters)")
                      => page.title_length >= 1
               /\ Among(detected[i], "WARNING",
                        "Meta description too short ("
                            \o Str(page.meta_desc_length) \o " characters)")
                      => page.meta_desc_length >= 1

\* a page with a blank title and a blank description has been analysed and
\* has got the issues of a missing title and a missing description
C30_Witness ==
    /\ BlankDescription
    /\ DescriptionTags[1].attrs = [name |-> DESCRIPTION, content |-> Txt_blank]
    /\ Len(analysis) = 1
    /\ analysis[1].title = <<>>
    /\ ~analysis[1].has_meta_description
    /\ page = analysis[1]
    /\ Len(detected) = 1
    /\ Among(detected[1], "CRITICAL", "Missing title tag")
    /\ Among(detected[1], "CRITICAL", "Missing meta description")

=============================================================================
